---- MODULE Spec2Model ----
(***************************************************************************)
(* Credential cache (gmail_mcp/gmail/client.py) and interactive OAuth flow *)
(* (gmail_mcp/auth/oauth.py) of the Gmail MCP server.                      *)
(***************************************************************************)
EXTENDS Integers, Sequences, FiniteSets, TLC

(* ---------------------------- bounds ----------------------------------- *)
MaxThreads == 2
MaxCalls == 3
MaxTime == 1
MaxPortOffset == 1      \* requested ports: DefaultPort .. DefaultPort + MaxPortOffset
MaxAttempts == 3        \* max_attempts of a direct _create_server call: 0 .. MaxAttempts
MaxInterval == 2        \* interval of a poll_device_flow call: 0 .. MaxInterval
MaxTimeout == 8         \* timeout of a poll_device_flow call: 0 .. MaxTimeout
MaxIdLen == 3           \* length of a user_id given to _token_path: 0 .. MaxIdLen
MaxPlainLen == 2        \* length of a plaintext given to encrypt_data: 0 .. MaxPlainLen
MaxClock == 3           \* ticks of the approval manager's clock: 0 .. MaxClock
MaxStores == 2          \* store calls per approval request

Threads == 1..MaxThreads
Users == {"default", "other"}

\* Python's None for an optional integer-valued field (access token, expiry).
None == -1
\* "no object" for lock references and lock holders.
Null == 0
\* A token file that does not exist: TokenStorage.load returns None.
Absent == [access_token |-> None, refresh_token |-> FALSE, expiry |-> None, exists |-> FALSE]
\* No cache entry (user_id not in the dict).
NoEntry == Absent

VARIABLES
    services,       \* GmailClient._services: does the user have a cached service
    credentials,    \* GmailClient._credentials: the Credentials object of that service
    refresh_locks,  \* GmailClient._refresh_locks: user -> lock object
    locks,          \* lock objects: holder thread or Null
    store,          \* token_storage: user -> stored token record
    now,            \* wall clock
    nextTok,        \* next access token the provider issues
    th,             \* per thread: the locals of its get_service call
    calls,          \* number of get_service calls started
    reqs,           \* refresh requests received by the token endpoint, per user
    issued,         \* the access token the endpoint last issued for a user
    hist            \* per thread: what its current call has done so far

cacheVars == <<services, credentials, refresh_locks, locks, store, now, nextTok,
               th, calls, reqs, issued, hist>>

\* The interactive OAuth flow (OAuthManager in auth/oauth.py).
VARIABLES
    mgr,            \* OAuthManager: is_configured, _oauth_port, _redirect_uri
    portStatus,     \* operating system: what binding each local port yields
    listeners,      \* ports on which this process holds a bound HTTPServer
    fl,             \* locals of the running run_local_server / _create_server
    http,           \* the request the listener handled and the response sent
    fh              \* what the running flow has done so far

flowVars == <<mgr, portStatus, listeners, fl, http, fh>>

\* Device flow polling (OAuthManager.poll_device_flow in auth/oauth.py).
VARIABLES
    pl,             \* locals of the running poll_device_flow
    ph              \* what the running poll has done so far

pollVars == <<pl, ph>>

\* Token files (TokenStorage in auth/storage.py, auth/tokens.py).
VARIABLES
    fs,             \* storage directory: token file path -> file
    env,            \* process environment: encryption key, umask
    so,             \* locals of the running TokenStorage call
    sh              \* what the storage calls have done so far

storageVars == <<fs, env, so, sh>>

\* The login tool (gmail_login in tools/auth/login.py).
VARIABLES
    lg              \* locals of the running gmail_login call

loginVars == <<lg>>

\* Arguments and results of the functions studied on their own.
VARIABLES
    tp,             \* TokenStorage._token_path: user_id and what it yields
    cr              \* encrypt/decrypt: inputs and what they yield

pureVars == <<tp, cr>>

\* The approval manager (ApprovalManager in hitl/manager.py).
VARIABLES
    am              \* the manager, its clock, the request objects, the running calls

hitlVars == <<am>>

\* GmailClient at the grain of its locks, and the logout tool
\* (gmail/client.py, tools/auth/logout.py).
VARIABLES
    gc              \* locks and their holders, cache, token files, the running calls

lockVars == <<gc>>

vars == <<cacheVars, flowVars, pollVars, storageVars, loginVars, pureVars, hitlVars, lockVars>>

\* What the operations of one component leave alone.
notCache == <<flowVars, pollVars, storageVars, loginVars, pureVars, hitlVars, lockVars>>
notFlow == <<cacheVars, pollVars, storageVars, loginVars, pureVars, hitlVars, lockVars>>
notPoll == <<cacheVars, flowVars, storageVars, loginVars, pureVars, hitlVars, lockVars>>
notStorage == <<cacheVars, flowVars, pollVars, loginVars, pureVars, hitlVars, lockVars>>
notPure == <<cacheVars, flowVars, pollVars, storageVars, loginVars, hitlVars, lockVars>>
notHitl == <<cacheVars, flowVars, pollVars, storageVars, loginVars, pureVars, lockVars>>
notLock == <<cacheVars, flowVars, pollVars, storageVars, loginVars, pureVars, hitlVars>>
\* gmail_login works on the cache, the poll and the token files.
notLogin == <<flowVars, pureVars, hitlVars, lockVars, env, refresh_locks, locks, store, now, nextTok,
              calls, reqs, issued, hist>>

(* ------------------------- OAuth flow: data ----------------------------- *)
\* run_local_server(port=3000), OAUTH_PORT default
DefaultPort == 3000
\* _create_server(..., max_attempts=3)
DefaultMaxAttempts == 3

RequestPorts == DefaultPort .. (DefaultPort + MaxPortOffset)
MaxRange == IF MaxAttempts > DefaultMaxAttempts THEN MaxAttempts ELSE DefaultMaxAttempts
AllPorts == DefaultPort .. (DefaultPort + MaxPortOffset + MaxRange - 1)

\* What HTTPServer(("localhost", p), handler) does on a port: binds it, raises
\* OSError(EADDRINUSE), or raises another OSError (EACCES, ...).
BindOutcomes == {"free", "in_use", "denied"}

\* secrets.token_urlsafe(32) draws the state; "" is the closure's initial value
StateValues == {"s1", "s2"}
NoState == ""

CallbackPath == "/oauth/callback"
Paths == {CallbackPath, "/favicon.ico"}

\* A query string: for each parameter the list of its raw values, in order.
QueryValues(vals) == {<<>>, <<"">>} \cup {<<v>> : v \in vals}
Queries ==
    [error : QueryValues({"access_denied"}),
     state : QueryValues(StateValues),
     code  : QueryValues({"c1"})]

Requests == [path : Paths, query : Queries]
NoRequest == [path |-> "", query |-> [error |-> <<>>, state |-> <<>>, code |-> <<>>]]

\* urllib.parse.parse_qs: parameters with a blank value are dropped
\* (keep_blank_values=False); the others map to their list of values.
ParseQs(query) ==
    [k \in {k \in DOMAIN query : query[k] # <<>> /\ query[k][1] # ""} |-> query[k]]

\* Python None where a string is expected
Missing == "<None>"

\* params.get(key, [None])[0]
Get(params, key) == IF key \in DOMAIN params THEN params[key][1] ELSE Missing

NoError == [kind |-> "none", details |-> {}]
AuthenticationError(kind, details) == [kind |-> kind, details |-> details]
NoResponse == [status |-> Null, body |-> {}]
NoUrl == [redirect_uri |-> Null, state |-> NoState]
NoOutcome == [kind |-> "none", port |-> Null, error |-> NoError, attempted_ports |-> <<>>]

IdleFlow ==
    [pc |-> "idle", op |-> "none", port |-> Null, max_attempts |-> 0, attempt |-> 0,
     actual_port |-> Null, state |-> NoState, auth_url |-> NoUrl,
     code |-> Missing, error |-> NoError, outcome |-> NoOutcome]

NoFlowHist ==
    [tried |-> <<>>, generated |-> 0, boundAtGen |-> FALSE, opened |-> NoUrl,
     compared |-> Missing, exchanged |-> <<>>, timedOut |-> FALSE]

\* No flow is running and nothing is bound.
FlowIdle ==
    /\ mgr = [configured |-> TRUE, oauth_port |-> DefaultPort, redirect_uri |-> DefaultPort]
    /\ portStatus = [p \in AllPorts |-> "free"]
    /\ listeners = {}
    /\ fl = IdleFlow
    /\ http = [request |-> NoRequest, response |-> NoResponse]
    /\ fh = NoFlowHist

(* ------------------------- device flow: data ---------------------------- *)
\* current_interval += 5 on slow_down
SlowDownStep == 5

\* What one requests.post to the token endpoint yields: the "error" of the
\* JSON body, a body with an access_token, or a requests.RequestException.
PendingResponses == {"authorization_pending", "slow_down"}
FatalResponses == {"access_denied", "expired_token", "invalid_grant"}
PollResponses ==
    PendingResponses \cup FatalResponses \cup {"access_token", "RequestException"}

\* As PollTokenKeys, with the client secret among the keys.
PollTokenKeys_WithSecret ==
    {"access_token", "refresh_token", "token_uri", "client_id", "client_secret", "scopes"}

\* Keys of the token_data poll_device_flow returns
PollTokenKeys == {"access_token", "refresh_token", "token_uri", "client_id", "scopes"}

NoPollOutcome == [kind |-> "none", keys |-> {}]
IdlePoll ==
    [pc |-> "idle", interval |-> 0, timeout |-> 0, elapsed |-> 0,
     current_interval |-> 0, outcome |-> NoPollOutcome]
\* Requests sent and sleeps taken are counted up to PollCap.
PollCap == MaxTimeout + 1
NoPollHist == [requests |-> 0, sleeps |-> 0, slept |-> None, last |-> "none"]

PollIdle ==
    /\ pl = IdlePoll
    /\ ph = NoPollHist

(* -------------------------- token path: data ---------------------------- *)
\* Characters a user_id is made of: letters and digits (str.isalnum), the
\* four others _token_path lets through, and some it does not.
Alnum == {"a", "t", "7"}
Chars == Alnum \cup {"-", "_", ".", "@", "/", " "}
UserIds == UNION {[1..n -> Chars] : n \in 0..MaxIdLen}

\* self._base_dir, and the suffix of every token file
BaseDir == "~/.gmail-mcp/tokens"
Suffix == ".token.enc"

\* c.isalnum() or c in "-_.@"
Kept(c) == c \in Alnum \/ c \in {"-", "_", ".", "@"}

\* "".join(c for c in user_id if ...)
RECURSIVE Filter(_)
Filter(user_id) ==
    IF user_id = <<>> THEN <<>>
    ELSE (IF Kept(Head(user_id)) THEN <<Head(user_id)>> ELSE <<>>) \o Filter(Tail(user_id))

\* safe_id.replace("@", "_at_")
RECURSIVE Replace(_)
Replace(safe_id) ==
    IF safe_id = <<>> THEN <<>>
    ELSE (IF Head(safe_id) = "@" THEN <<"_", "a", "t", "_">> ELSE <<Head(safe_id)>>)
         \o Replace(Tail(safe_id))

InvalidUserId == [kind |-> "TokenError", parent |-> "", name |-> <<>>]
\* self._base_dir / f"{safe_id}.token.enc": a path is its directory and the
\* characters of its file name, the suffix counting as one.
PathOf(safe_id) == [kind |-> "path", parent |-> BaseDir, name |-> Append(safe_id, Suffix)]

\* As TokenPath, without the filter.
TokenPath_Unfiltered(user_id) ==
    LET safe_id == Replace(user_id)
    IN  IF safe_id = <<>> THEN InvalidUserId ELSE PathOf(safe_id)

\* TokenStorage._token_path
TokenPath(user_id) ==
    LET safe_id == Replace(Filter(user_id))
    IN  IF safe_id = <<>> THEN InvalidUserId ELSE PathOf(safe_id)

NoPath == [kind |-> "none", parent |-> "", name |-> <<>>]
PathIdle == tp = [user_id |-> <<>>, result |-> NoPath]

(* -------------------------- encryption: data ---------------------------- *)
KEY_SIZE_BYTES == 32
IV_SIZE_BYTES == 12
HEX_KEY_LENGTH == KEY_SIZE_BYTES * 2

\* Byte strings given to encrypt_data
ByteValues == {0, 255}
Plaintexts == UNION {[1..n -> ByteValues] : n \in 0..MaxPlainLen}

\* A key or an IV is its length in bytes and which bytes it is.
KeyIds == {1, 2}
Keys == [len : {KEY_SIZE_BYTES, KEY_SIZE_BYTES - 1}, id : KeyIds]
\* os.urandom(IV_SIZE_BYTES)
Ivs == [len : {IV_SIZE_BYTES}, id : KeyIds]

\* An exception raised instead of a value returned.
Failure(kind) == [kind |-> kind]
Failed(x) == x.kind \in {"ValidationError", "TokenError"}

\* A hex-key string: whitespace around it (pad characters), then len
\* characters of which spaces are whitespace standing between two-digit
\* groups, the others being all hexadecimal digits (hex) or not; id tells
\* which digits. TOKEN_ENCRYPTION_KEY is such a string, or unset or empty.
NoHexKey == [len |-> 0, pad |-> 0, spaces |-> 0, hex |-> TRUE, id |-> 0]
HexKeys ==
    [len : {HEX_KEY_LENGTH, HEX_KEY_LENGTH - 2}, pad : {0, 2}, spaces : {0, 2},
     hex : BOOLEAN, id : KeyIds]
\* len(hex_key) and hex_key.strip()
StrLen(hex_key) == hex_key.pad + hex_key.len
Strip(hex_key) == [hex_key EXCEPT !.pad = 0]
\* bytes.fromhex(hex_key): whitespace between the two-digit groups is skipped,
\* anything else that is no hexadecimal digit is a ValueError.
BytesFromHex(hex_key) ==
    IF ~hex_key.hex THEN Failure("ValueError")
    ELSE [kind |-> "ok",
          bytes |-> [len |-> (hex_key.len - hex_key.spaces) \div 2, id |-> hex_key.id]]

\* cryptography's AESGCM(key).encrypt(iv, plaintext, None): ciphertext and
\* tag, which only the same key and IV open again.
AesGcmEncrypt(key, iv, plaintext) == [key |-> key, iv |-> iv, sealed |-> plaintext]
AesGcmOpens(key, iv, ciphertext) == ciphertext.key = key /\ ciphertext.iv = iv

\* As EncryptData, with one fixed IV instead of the drawn one.
EncryptData_FixedIv(plaintext, key, iv) ==
    IF key.len # KEY_SIZE_BYTES THEN Failure("ValidationError")
    ELSE LET fixed == [len |-> IV_SIZE_BYTES, id |-> 1]
         IN  [kind |-> "ok", iv |-> fixed, ciphertext |-> AesGcmEncrypt(key, fixed, plaintext)]

\* As EncryptData, refusing an empty plaintext.
EncryptData_NonEmpty(plaintext, key, iv) ==
    IF key.len # KEY_SIZE_BYTES THEN Failure("ValidationError")
    ELSE IF plaintext = <<>> THEN Failure("TokenError")
    ELSE [kind |-> "ok", iv |-> iv, ciphertext |-> AesGcmEncrypt(key, iv, plaintext)]

\* encrypt_data(plaintext, key); iv is what os.urandom returns
EncryptData(plaintext, key, iv) ==
    IF key.len # KEY_SIZE_BYTES THEN Failure("ValidationError")
    ELSE [kind |-> "ok", iv |-> iv, ciphertext |-> AesGcmEncrypt(key, iv, plaintext)]

\* As DecryptData, without the check of the authentication tag.
DecryptData_NoAuth(iv, ciphertext, key) ==
    IF key.len # KEY_SIZE_BYTES \/ iv.len # IV_SIZE_BYTES THEN Failure("ValidationError")
    ELSE [kind |-> "ok", plaintext |-> ciphertext.sealed]

\* decrypt_data(iv, ciphertext, key)
DecryptData(iv, ciphertext, key) ==
    IF key.len # KEY_SIZE_BYTES \/ iv.len # IV_SIZE_BYTES THEN Failure("ValidationError")
    ELSE IF AesGcmOpens(key, iv, ciphertext)
    THEN [kind |-> "ok", plaintext |-> ciphertext.sealed]
    ELSE Failure("TokenError")

\* key_from_hex(hex_key)
KeyFromHex(hex_key) ==
    LET stripped == Strip(hex_key) IN
    IF StrLen(stripped) # HEX_KEY_LENGTH THEN Failure("ValidationError")
    ELSE IF BytesFromHex(stripped).kind # "ok" THEN Failure("ValidationError")
    ELSE [kind |-> "ok", key |-> BytesFromHex(stripped).bytes]

\* get_encryption_key()
GetEncryptionKey(hex_key) ==
    IF StrLen(hex_key) = 0 THEN Failure("TokenError")
    ELSE IF Failed(KeyFromHex(hex_key)) THEN Failure("TokenError")
    ELSE KeyFromHex(hex_key)

\* Python values a token record holds.
Py(type, val) == [type |-> type, val |-> val]
TokenValues ==
    {Py("str", <<"ya29">>), Py("NoneType", <<>>),
     Py("list", <<"gmail.readonly">>), Py("tuple", <<"gmail.readonly">>)}
TokenFields == {"access_token", "scopes"}
TokenDicts == UNION {[d -> TokenValues] : d \in SUBSET TokenFields}

\* json.dumps writes a tuple as an array, json.loads reads an array as a list.
JsonValue(v) == IF v.type = "tuple" THEN Py("list", v.val) ELSE v
\* json.dumps(token_data).encode("utf-8"): the bytes of the JSON text
JsonDumps(token_data) == [json |-> [k \in DOMAIN token_data |-> JsonValue(token_data[k])]]
\* json.loads(plaintext.decode("utf-8"))
JsonLoads(plaintext) == plaintext.json

\* bytes.hex() and bytes.fromhex()
Hex(bytes) == [hex |-> bytes]
FromHex(string) == string.hex

\* encrypt_token(token_data)
EncryptToken(token_data, hex_key, iv) ==
    LET key == GetEncryptionKey(hex_key) IN
    IF Failed(key) THEN key
    ELSE LET encrypted == EncryptData(JsonDumps(token_data), key.key, iv)
         IN  IF Failed(encrypted) THEN Failure("TokenError")
             ELSE [kind |-> "ok", iv |-> Hex(encrypted.iv),
                   ciphertext |-> Hex(encrypted.ciphertext)]

\* decrypt_token(encrypted)
DecryptToken(encrypted, hex_key) ==
    LET key == GetEncryptionKey(hex_key) IN
    IF Failed(key) THEN key
    ELSE LET decrypted == DecryptData(FromHex(encrypted.iv), FromHex(encrypted.ciphertext),
                                      key.key)
         IN  IF Failed(decrypted) THEN Failure("TokenError")
             ELSE [kind |-> "ok", token_data |-> JsonLoads(decrypted.plaintext)]

NoCrypt == [op |-> "none"]
CryptIdle == cr = NoCrypt
PureIdle == PathIdle /\ CryptIdle

(* ------------------------- token storage: data -------------------------- *)
\* The record a producer returns: its keys, and the access token it carries.
TokenRecord(keys, token) ==
    [k \in keys |->
        IF k = "access_token" THEN Py("str", <<token>>)
        ELSE IF k = "scopes" THEN Py("list", <<"gmail.readonly">>)
        ELSE Py("str", <<k>>)]

\* Keys of the token_data exchange_code builds, with or without an expiry
ExchangeTokenKeys(has_expiry) ==
    {"access_token", "refresh_token", "token_uri", "client_id", "scopes"}
        \cup (IF has_expiry THEN {"expiry"} ELSE {})
\* Keys of the token_data _do_refresh builds, with or without an expiry
RefreshTokenKeys(has_expiry) ==
    {"access_token", "refresh_token", "token_uri", "client_id", "scopes"}
        \cup (IF has_expiry THEN {"expiry"} ELSE {})

\* Process umask, and the mode of a file that open(path, "w") creates
Umasks == {"022", "077"}
CreateMode(umask) == IF umask = "077" THEN "0600" ELSE "0644"
OwnerOnly == "0600"

\* A token file: what of the JSON text is in it, the encrypted record the
\* text is of, and its permissions.
NoEncrypted == [kind |-> "none"]
NoFile == [exists |-> FALSE, written |-> "none", encrypted |-> NoEncrypted, mode |-> ""]
File(written, encrypted, mode) ==
    [exists |-> TRUE, written |-> written, encrypted |-> encrypted, mode |-> mode]

NoToken == <<>>
NoOpResult == [kind |-> "none"]
IdleStorage ==
    [pc |-> "idle", op |-> "none", user |-> "default", token_data |-> NoToken,
     encrypted |-> NoEncrypted, result |-> NoOpResult]
\* Per identity: the record a map would hold (NoToken for none), whether every
\* call on it so far ran to its end without raising, and the file and the
\* map entry as the running call found them.
NoStorageHist ==
    [map |-> [u \in Users |-> NoToken], clean |-> [u \in Users |-> TRUE],
     file |-> NoFile, entry |-> NoToken]

ValidHexKey == [len |-> HEX_KEY_LENGTH, pad |-> 0, spaces |-> 0, hex |-> TRUE, id |-> 1]

StorageIdle ==
    /\ fs = [u \in Users |-> NoFile]
    /\ env = [hex_key |-> ValidHexKey, umask |-> "077"]
    /\ so = IdleStorage
    /\ sh = NoStorageHist

(* ----------------------------- login: data ------------------------------ *)
\* poll_device_flow(device_code) as gmail_login calls it: interval=5, timeout=300
DefaultInterval == 5
DefaultPollTimeout == 300

\* Token files and cache as a call found them; intact tells, once the call
\* has returned, whether it left them so.
NoSnapshot == [fs |-> <<>>, services |-> <<>>, credentials |-> <<>>]
IdleLogin ==
    [pc |-> "idle", token_data |-> NoToken, response |-> "none",
     before |-> NoSnapshot, intact |-> TRUE]
LoginIdle == lg = IdleLogin

(* ------------------------ approval manager: data ------------------------ *)
\* ApprovalRequest.id of the request that is made, what it asks for, and the
\* ids callers come with: that one and one no request has.
ApprovalIds == {"a1"}
GivenIds == ApprovalIds \cup {"a0"}
ActionOf(id) == "send_email"
\* Arguments of consume; "" stands for None.
ExpectedActions == {"", "send_email", "trash_email"}
ParamsHashes == {"", "h1", "h2"}
\* ApprovalManager(timeout_ms), in ticks of the clock
Timeouts == {0, 1}

\* An ApprovalRequest before store has seen it.
NewRequest == [status |-> "pending", expires_at |-> 0]
IdleCall == [pc |-> "idle", id |-> "", now |-> 0]
NoCall == [op |-> "none", id |-> "", result |-> "none"]
\* The manager as constructed: no request held. The request objects live on
\* outside the dict; params_hash is the one the requests carry ("" for
\* none); stored, returned and rejected count per request the store calls,
\* the consume calls that returned it and note a reject.
IdleManager(timeout) ==
    [timeout |-> timeout, params_hash |-> "h1", now |-> 0, requests |-> {},
     obj |-> [id \in ApprovalIds |-> NewRequest],
     th |-> [t \in Threads |-> IdleCall],
     stored |-> [id \in ApprovalIds |-> 0],
     returned |-> [id \in ApprovalIds |-> 0],
     rejected |-> [id \in ApprovalIds |-> FALSE],
     last |-> NoCall]
HitlIdle == am = IdleManager(1)

(* ---------------------- locks of GmailClient: data ---------------------- *)
\* What the code asks of a Credentials object: is there an access token, has
\* the expiry passed, is there a refresh token. A token file holds the same,
\* or text that does not decrypt; exists is FALSE for no object, no file.
NoCred == [exists |-> FALSE, corrupt |-> FALSE, token |-> FALSE, expired |-> FALSE, rt |-> FALSE]
Cred(token, expired, rt) ==
    [exists |-> TRUE, corrupt |-> FALSE, token |-> token, expired |-> expired, rt |-> rt]
CorruptFile == [NoCred EXCEPT !.exists = TRUE, !.corrupt = TRUE]
TokenFiles == {NoCred, CorruptFile} \cup {Cred(token, expired, rt) : token, expired, rt \in BOOLEAN}

\* A lock nobody holds.
Free == 0
\* Locals of a thread that runs neither get_service nor gmail_logout.
NoCaller ==
    [pc |-> "idle", op |-> "none", user |-> "default", creds |-> NoCred,
     aliased |-> FALSE, viaCache |-> FALSE, result |-> "none"]
\* GmailClient as constructed, over the token files found.
IdleClient(files) ==
    [lock |-> Free, mutex |-> Free,
     refresh_locks |-> [u \in Users |-> FALSE], held |-> [u \in Users |-> Free],
     cache |-> [u \in Users |-> NoCred], store |-> files,
     th |-> [t \in Threads |-> NoCaller], calls |-> 0,
     loggedOut |-> [u \in Users |-> FALSE]]
LockIdle == gc = IdleClient([u \in Users |-> NoCred])

\* The components a specification does not exercise stay as constructed.
RestIdle == StorageIdle /\ LoginIdle /\ PureIdle /\ HitlIdle /\ LockIdle

(* ------------------------ google Credentials --------------------------- *)
\* Credentials.expired at time n: an expiry is set and has passed.
ExpiredAt(c, n) == c.expiry # None /\ n >= c.expiry
Expired(c) == ExpiredAt(c, now)
\* Credentials.valid: there is a token and it is not expired.
Valid(c) == c.access_token # None /\ ~Expired(c)

\* GmailClient._build_credentials: token record -> Credentials.
BuildCredentials(token_data) ==
    [access_token |-> token_data.access_token,
     refresh_token |-> token_data.refresh_token,
     expiry |-> token_data.expiry,
     exists |-> TRUE]

\* token_data built by _do_refresh from the refreshed credentials.
TokenData(c) ==
    [access_token |-> c.access_token,
     refresh_token |-> c.refresh_token,
     expiry |-> c.expiry,
     exists |-> TRUE]

\* A load that hands back an empty record for a missing file.
Load_EmptyRecord(u) == IF store[u].exists THEN store[u] ELSE [Absent EXCEPT !.exists = TRUE]

\* TokenStorage.load: None when no file exists.
Load(u) == store[u]

\* Token files found at start-up: with or without access token and refresh
\* token, expiring at time 1, and one that carries no expiry at all.
StoredRecords ==
    { [access_token |-> a, refresh_token |-> r, expiry |-> 1, exists |-> TRUE] :
        a \in {None, 0}, r \in BOOLEAN }
    \cup { [access_token |-> 0, refresh_token |-> FALSE, expiry |-> None, exists |-> TRUE] }

NoResult == [kind |-> "none", cred |-> NoEntry]
\* The Resource built over credentials c, as the caller receives it.
Service(c) == [kind |-> "service", cred |-> c]
\* AuthenticationError e raised to the caller.
Raise(e) == [kind |-> e, cred |-> NoEntry]
AuthErrors == {"NotAuthenticated", "RefreshFailed", "InvalidCredentials"}

\* Locals of a thread that is not inside get_service.
IdleThread(u, r) ==
    [pc |-> "idle", user |-> u, refresh_lock |-> Null, creds |-> NoEntry,
     aliased |-> FALSE, viaCache |-> FALSE, result |-> r]

\* Bookkeeping of one call: refresh requests sent, the branches whose refresh
\* failed, whether it wrote a cache entry, the cache entry it found at the
\* double check and the record it loaded (and when), when it last judged its
\* credential, and whether it started with neither cache entry nor stored token.
NoHist ==
    [sent |-> 0, failed |-> {}, added |-> FALSE, cached |-> NoEntry, loaded |-> Absent,
     seenAt |-> 0, decidedAt |-> 0, startAbsent |-> FALSE]

(* ------------------------------ Init ----------------------------------- *)
InitCache ==
    /\ services = [u \in Users |-> FALSE]
    /\ credentials = [u \in Users |-> NoEntry]
    /\ refresh_locks = [u \in Users |-> Null]
    /\ locks = <<>>
    /\ store \in [Users -> StoredRecords \cup {Absent}]
    /\ now = 0
    /\ nextTok = 1
    /\ th = [t \in Threads |-> IdleThread("default", NoResult)]
    /\ calls = 0
    /\ reqs = [u \in Users |-> 0]
    /\ issued = [u \in Users |-> None]
    /\ hist = [t \in Threads |-> NoHist]

\* Leaving the `with refresh_lock:` block.
Release(t) == [locks EXCEPT ![th[t].refresh_lock] = Null]

\* Thread t moves to position p.
Goto(t, p) == th' = [th EXCEPT ![t].pc = p]

\* get_service returns or raises r; its locals die.
Return(t, r) ==
    th' = [th EXCEPT ![t] = [IdleThread(th[t].user, r) EXCEPT !.pc = "done"]]

(* --------------------------- get_service ------------------------------- *)
\* A caller enters get_service(u).
Call(t, u) ==
    /\ th[t].pc \in {"idle", "done"}
    /\ calls < MaxCalls
    /\ calls' = calls + 1
    /\ th' = [th EXCEPT ![t] = [IdleThread(u, NoResult) EXCEPT !.pc = "fast"]]
    /\ hist' = [hist EXCEPT ![t] =
                  [NoHist EXCEPT !.startAbsent = ~services[u] /\ ~store[u].exists]]
    /\ UNCHANGED <<notCache, services, credentials, refresh_locks, locks, store, now,
                   nextTok, reqs, issued>>

\* First check under self._lock.
FastPath(t) ==
    /\ th[t].pc = "fast"
    /\ LET u == th[t].user
       IN IF services[u] /\ credentials[u].exists /\ Valid(credentials[u])
          THEN Return(t, Service(credentials[u]))
          ELSE Goto(t, "getlock")
    /\ hist' = [hist EXCEPT ![t].decidedAt = now]
    /\ UNCHANGED <<notCache, services, credentials, refresh_locks, locks, store, now, nextTok,
                   calls, reqs, issued>>

\* _get_or_create_refresh_lock without the registry mutex: two callers both
\* find no lock and each installs its own.
GetOrCreateRefreshLock_Racy(t) ==
    /\ th[t].pc = "getlock"
    /\ LET u == th[t].user
       IN /\ locks' = Append(locks, Null)
          /\ refresh_locks' = [refresh_locks EXCEPT ![u] = Len(locks) + 1]
          /\ th' = [th EXCEPT ![t].refresh_lock = Len(locks) + 1,
                              ![t].pc = "acquire"]
    /\ UNCHANGED <<notCache, services, credentials, store, now, nextTok, calls, reqs, issued, hist>>

\* _get_or_create_refresh_lock, under self._refresh_lock_mutex.
GetOrCreateRefreshLock(t) ==
    /\ th[t].pc = "getlock"
    /\ LET u == th[t].user
       IN /\ IF refresh_locks[u] = Null
             THEN /\ locks' = Append(locks, Null)
                  /\ refresh_locks' = [refresh_locks EXCEPT ![u] = Len(locks) + 1]
             ELSE UNCHANGED <<locks, refresh_locks>>
          /\ th' = [th EXCEPT ![t].refresh_lock = refresh_locks'[u],
                              ![t].pc = "acquire"]
    /\ UNCHANGED <<notCache, services, credentials, store, now, nextTok, calls, reqs, issued, hist>>

\* `with refresh_lock:` blocks until the lock is free.
AcquireRefreshLock(t) ==
    /\ th[t].pc = "acquire"
    /\ locks[th[t].refresh_lock] = Null
    /\ locks' = [locks EXCEPT ![th[t].refresh_lock] = t]
    /\ Goto(t, "dcheck")
    /\ UNCHANGED <<notCache, services, credentials, refresh_locks, store, now, nextTok,
                   calls, reqs, issued, hist>>

\* DoubleCheck without the re-check of validity: the thread acts on what it
\* saw before it waited for the lock and refreshes the cached credential.
DoubleCheck_NoRecheck(t) ==
    /\ th[t].pc = "dcheck"
    /\ LET u == th[t].user
           c == credentials[u]
       IN IF services[u] /\ c.exists /\ c.refresh_token
          THEN /\ th' = [th EXCEPT ![t].creds = c, ![t].aliased = TRUE,
                                   ![t].viaCache = TRUE, ![t].pc = "refresh"]
               /\ UNCHANGED locks
          ELSE /\ Goto(t, "load")
               /\ UNCHANGED locks
    /\ hist' = [hist EXCEPT ![t].decidedAt = now, ![t].seenAt = now,
                            ![t].cached = IF services[th[t].user]
                                          THEN credentials[th[t].user] ELSE NoEntry]
    /\ UNCHANGED <<notCache, services, credentials, refresh_locks, store, now, nextTok,
                   calls, reqs, issued>>

\* Double check under self._lock, inside the per-user lock.
DoubleCheck(t) ==
    /\ th[t].pc = "dcheck"
    /\ LET u == th[t].user
           c == credentials[u]
       IN IF services[u] /\ c.exists /\ Valid(c)
          THEN /\ Return(t, Service(c))
               /\ locks' = Release(t)
          ELSE IF services[u] /\ c.exists /\ Expired(c) /\ c.refresh_token
               THEN /\ th' = [th EXCEPT ![t].creds = c, ![t].aliased = TRUE,
                                        ![t].viaCache = TRUE, ![t].pc = "refresh"]
                    /\ UNCHANGED locks
               ELSE /\ Goto(t, "load")
                    /\ UNCHANGED locks
    /\ hist' = [hist EXCEPT ![t].decidedAt = now, ![t].seenAt = now,
                            ![t].cached = IF services[th[t].user]
                                          THEN credentials[th[t].user] ELSE NoEntry]
    /\ UNCHANGED <<notCache, services, credentials, refresh_locks, store, now, nextTok,
                   calls, reqs, issued>>

\* Exception handling that swallows every refresh failure.
RefreshException_Swallow(t) ==
    /\ Goto(t, "inval")
    /\ UNCHANGED locks

\* What get_service does with an exception out of _do_refresh: the refresh of
\* a cached credential is caught (the cache entry is dropped next); the
\* refresh of a credential loaded from storage is re-raised as
\* AuthenticationError.
RefreshException(t) ==
    IF th[t].viaCache
    THEN /\ Goto(t, "inval")
         /\ UNCHANGED locks
    ELSE /\ Return(t, Raise("RefreshFailed"))
         /\ locks' = Release(t)

\* The branch of get_service the failing _do_refresh was called from.
Branch(t) == IF th[t].viaCache THEN "cached" ELSE "stored"

\* _do_refresh: creds.refresh(Request()), one request to the token endpoint.
\* The Credentials object is updated in place.
DoRefresh_Request(t, accept) ==
    /\ th[t].pc = "refresh"
    /\ reqs' = [reqs EXCEPT ![th[t].user] = @ + 1]
    /\ IF accept
       THEN /\ LET c == [th[t].creds EXCEPT !.access_token = nextTok,
                                                !.expiry = now + 1]
               IN /\ th' = [th EXCEPT ![t].creds = c, ![t].pc = "save"]
                  /\ credentials' = IF th[t].aliased
                                    THEN [credentials EXCEPT ![th[t].user] = c]
                                    ELSE credentials
            /\ nextTok' = nextTok + 1
            /\ issued' = [issued EXCEPT ![th[t].user] = nextTok]
            /\ hist' = [hist EXCEPT ![t].sent = @ + 1, ![t].decidedAt = now]
            /\ UNCHANGED locks
       ELSE /\ RefreshException(t)
            /\ hist' = [hist EXCEPT ![t].sent = @ + 1,
                                    ![t].failed = @ \cup {Branch(t)}]
            /\ UNCHANGED <<credentials, nextTok, issued>>
    /\ UNCHANGED <<notCache, services, refresh_locks, store, now, calls>>

\* _do_refresh: token_storage.save(user_id, token_data).
DoRefresh_Save(t, ok) ==
    /\ th[t].pc = "save"
    /\ IF ok
       THEN /\ store' = [store EXCEPT ![th[t].user] = TokenData(th[t].creds)]
            /\ Goto(t, "cache")
            /\ UNCHANGED <<locks, hist>>
       ELSE /\ RefreshException(t)
            /\ hist' = [hist EXCEPT ![t].failed = @ \cup {Branch(t)}]
            /\ UNCHANGED store
    /\ UNCHANGED <<notCache, services, credentials, refresh_locks, now, nextTok, calls, reqs, issued>>

\* Cache update under self._lock and return of the service: the end of
\* _do_refresh, and the end of get_service for a loaded valid credential.
\* Any other thread's creds is from now on not the cached object.
CacheAndReturn(t) ==
    /\ th[t].pc = "cache"
    /\ LET u == th[t].user
       IN /\ services' = [services EXCEPT ![u] = TRUE]
          /\ credentials' = [credentials EXCEPT ![u] = th[t].creds]
          /\ th' = [s \in Threads |->
                      IF s = t
                      THEN [IdleThread(u, Service(th[t].creds)) EXCEPT !.pc = "done"]
                      ELSE IF th[s].user = u THEN [th[s] EXCEPT !.aliased = FALSE]
                      ELSE th[s]]
    /\ hist' = [hist EXCEPT ![t].added = TRUE]
    /\ locks' = Release(t)
    /\ UNCHANGED <<notCache, refresh_locks, store, now, nextTok, calls, reqs, issued>>

\* _invalidate_unlocked: the entry of u leaves the cache, so no thread's
\* creds is the cached object any more.
InvalidateUnlocked(u) ==
    /\ services' = [services EXCEPT ![u] = FALSE]
    /\ credentials' = [credentials EXCEPT ![u] = NoEntry]

Unaliased(u) ==
    [s \in Threads |-> IF th[s].user = u THEN [th[s] EXCEPT !.aliased = FALSE] ELSE th[s]]

\* except-branch of the cached refresh: invalidate, then fall through to load.
InvalidateAfterFailure(t) ==
    /\ th[t].pc = "inval"
    /\ InvalidateUnlocked(th[t].user)
    /\ th' = [Unaliased(th[t].user) EXCEPT ![t].pc = "load"]
    /\ UNCHANGED <<notCache, refresh_locks, locks, store, now, nextTok, calls, reqs, issued, hist>>

\* LoadFromStorage without the final `if not creds.valid` check.
LoadFromStorage_NoValidCheck(t) ==
    /\ th[t].pc = "load"
    /\ LET token_data == Load(th[t].user)
           c == BuildCredentials(token_data)
       IN /\ hist' = [hist EXCEPT ![t].loaded = token_data, ![t].seenAt = now,
                                  ![t].decidedAt = now]
          /\ IF ~token_data.exists
             THEN /\ Return(t, Raise("NotAuthenticated"))
                  /\ locks' = Release(t)
             ELSE /\ th' = [th EXCEPT ![t].creds = c, ![t].aliased = FALSE,
                                      ![t].viaCache = FALSE,
                                      ![t].pc = IF Expired(c) /\ c.refresh_token
                                                THEN "refresh" ELSE "cache"]
                  /\ UNCHANGED locks
    /\ UNCHANGED <<notCache, services, credentials, refresh_locks, store, now, nextTok,
                   calls, reqs, issued>>

\* Load from storage, build credentials and decide what to do with them.
LoadFromStorage(t) ==
    /\ th[t].pc = "load"
    /\ LET token_data == Load(th[t].user)
           c == BuildCredentials(token_data)
       IN /\ hist' = [hist EXCEPT ![t].loaded = token_data, ![t].seenAt = now,
                                  ![t].decidedAt = now]
          /\ IF ~token_data.exists
             THEN /\ Return(t, Raise("NotAuthenticated"))
                  /\ locks' = Release(t)
             ELSE IF Expired(c) /\ c.refresh_token
                  THEN /\ th' = [th EXCEPT ![t].creds = c, ![t].aliased = FALSE,
                                           ![t].viaCache = FALSE, ![t].pc = "refresh"]
                       /\ UNCHANGED locks
                  ELSE IF ~Valid(c)
                       THEN /\ Return(t, Raise("InvalidCredentials"))
                            /\ locks' = Release(t)
                       ELSE /\ th' = [th EXCEPT ![t].creds = c, ![t].aliased = FALSE,
                                                ![t].viaCache = FALSE, ![t].pc = "cache"]
                            /\ UNCHANGED locks
    /\ UNCHANGED <<notCache, services, credentials, refresh_locks, store, now, nextTok,
                   calls, reqs, issued>>

\* GmailClient.invalidate(u), the public entry used by the login and logout tools.
Invalidate(u) ==
    /\ InvalidateUnlocked(u)
    /\ th' = Unaliased(u)
    /\ UNCHANGED <<notCache, refresh_locks, locks, store, now, nextTok, calls, reqs, issued, hist>>

(* --------------------------- environment ------------------------------- *)
\* Time passes.
Tick ==
    /\ now < MaxTime
    /\ now' = now + 1
    /\ UNCHANGED <<notCache, services, credentials, refresh_locks, locks, store, nextTok,
                   th, calls, reqs, issued, hist>>

GetService(t) ==
    \/ \E u \in Users : Call(t, u)
    \/ FastPath(t)
    \/ GetOrCreateRefreshLock(t)
    \/ AcquireRefreshLock(t)
    \/ DoubleCheck(t)
    \/ \E accept \in BOOLEAN : DoRefresh_Request(t, accept)
    \/ \E ok \in BOOLEAN : DoRefresh_Save(t, ok)
    \/ CacheAndReturn(t)
    \/ InvalidateAfterFailure(t)
    \/ LoadFromStorage(t)

Next ==
    \/ \E t \in Threads : GetService(t)
    \/ \E u \in Users : Invalidate(u)
    \/ Tick

Init == InitCache /\ FlowIdle /\ PollIdle /\ RestIdle

Spec == Init /\ [][Next]_vars

(* ------------- one refresh for concurrent callers (scenario) ----------- *)
\* The stored token of every user is expired and refreshable; the cache is
\* empty or still holds that credential from before it expired.
ExpiredRefreshable == [access_token |-> 0, refresh_token |-> TRUE, expiry |-> 1, exists |-> TRUE]

InitRefresh ==
    /\ services \in [Users -> BOOLEAN]
    /\ credentials = [u \in Users |-> IF services[u] THEN ExpiredRefreshable ELSE NoEntry]
    /\ refresh_locks = [u \in Users |-> Null]
    /\ locks = <<>>
    /\ store = [u \in Users |-> ExpiredRefreshable]
    /\ now = 1
    /\ nextTok = 1
    /\ th = [t \in Threads |-> IdleThread("default", NoResult)]
    /\ calls = 0
    /\ reqs = [u \in Users |-> 0]
    /\ issued = [u \in Users |-> None]
    /\ hist = [t \in Threads |-> NoHist]
    /\ FlowIdle
    /\ PollIdle
    /\ RestIdle

\* The token endpoint accepts every refresh, every save succeeds, and the
\* clock stands still while the callers run.
NextRefresh ==
    \E t \in Threads :
        \/ \E u \in Users : Call(t, u)
        \/ FastPath(t)
        \/ GetOrCreateRefreshLock(t)
        \/ AcquireRefreshLock(t)
        \/ DoubleCheck(t)
        \/ DoRefresh_Request(t, TRUE)
        \/ DoRefresh_Save(t, TRUE)
        \/ CacheAndReturn(t)
        \/ LoadFromStorage(t)

SpecRefresh == InitRefresh /\ [][NextRefresh]_vars

(* --------------------- OAuth flow: run_local_server -------------------- *)
\* The credential cache is not in use while the flow is studied.
CacheIdle ==
    /\ services = [u \in Users |-> FALSE]
    /\ credentials = [u \in Users |-> NoEntry]
    /\ refresh_locks = [u \in Users |-> Null]
    /\ locks = <<>>
    /\ store = [u \in Users |-> Absent]
    /\ now = 0
    /\ nextTok = 1
    /\ th = [t \in Threads |-> IdleThread("default", NoResult)]
    /\ calls = 0
    /\ reqs = [u \in Users |-> 0]
    /\ issued = [u \in Users |-> None]
    /\ hist = [t \in Threads |-> NoHist]

\* OAuthManager.__init__ with OAUTH_PORT set or not, client id/secret set or
\* not; the operating system decides what each port does on bind.
InitFlow ==
    /\ CacheIdle
    /\ PollIdle
    /\ RestIdle
    /\ mgr \in {[configured |-> c, oauth_port |-> p, redirect_uri |-> p] :
                    c \in BOOLEAN, p \in RequestPorts}
    /\ portStatus \in [AllPorts -> BindOutcomes]
    /\ listeners = {}
    /\ fl = IdleFlow
    /\ http = [request |-> NoRequest, response |-> NoResponse]
    /\ fh = NoFlowHist

\* The call ends: it returns a value or raises.
Raised(err) == [NoOutcome EXCEPT !.kind = "error", !.error = err]
Finished(o) == [fl EXCEPT !.pc = "done", !.outcome = o]

\* list(range(port, port + max_attempts))
Range(port, n) == [i \in 1..n |-> port + i - 1]

RunLocalServer(port) ==
    /\ fl.pc = "idle"
    /\ fl' = [IdleFlow EXCEPT !.pc = "bind", !.op = "run_local_server",
                              !.port = port, !.max_attempts = DefaultMaxAttempts]
    /\ UNCHANGED <<notFlow, mgr, portStatus, listeners, http, fh>>

\* A direct call of _create_server(handler_class, port, max_attempts).
CreateServerCall(port, max_attempts) ==
    /\ fl.pc = "idle"
    /\ fl' = [IdleFlow EXCEPT !.pc = "bind", !.op = "create_server",
                              !.port = port, !.max_attempts = max_attempts]
    /\ UNCHANGED <<notFlow, mgr, portStatus, listeners, http, fh>>

\* The bind on try_port succeeded: the server is returned to the caller.
Bound(try_port) ==
    /\ listeners' = listeners \cup {try_port}
    /\ portStatus' = [portStatus EXCEPT ![try_port] = "in_use"]
    /\ fl' = IF fl.op = "run_local_server"
             THEN [fl EXCEPT !.pc = "url", !.actual_port = try_port]
             ELSE [Finished([NoOutcome EXCEPT !.kind = "server", !.port = try_port])
                      EXCEPT !.actual_port = try_port]

\* The loop is over without a bind.
Exhausted ==
    /\ fl' = Finished([Raised(AuthenticationError("PortExhausted", {}))
                          EXCEPT !.attempted_ports = Range(fl.port, fl.max_attempts)])
    /\ UNCHANGED <<portStatus, listeners, fh>>

\* As CreateServer, but a port in use is skipped together with its successor.
CreateServer_SkipPort ==
    /\ fl.pc = "bind"
    /\ IF fl.attempt >= fl.max_attempts
       THEN Exhausted
       ELSE LET try_port == fl.port + fl.attempt IN
            /\ fh' = [fh EXCEPT !.tried = Append(@, try_port)]
            /\ CASE portStatus[try_port] = "free" -> Bound(try_port)
                 [] portStatus[try_port] = "in_use" ->
                        /\ fl' = [fl EXCEPT !.attempt = @ + 2]
                        /\ UNCHANGED <<portStatus, listeners>>
                 [] OTHER ->
                        /\ fl' = Finished(Raised(AuthenticationError("OSError", {})))
                        /\ UNCHANGED <<portStatus, listeners>>
    /\ UNCHANGED <<notFlow, mgr, http>>

\* _create_server: one iteration of `for attempt in range(max_attempts)`, or
\* the raise after the loop.
CreateServer ==
    /\ fl.pc = "bind"
    /\ IF fl.attempt >= fl.max_attempts
       THEN Exhausted
       ELSE LET try_port == fl.port + fl.attempt IN
            /\ fh' = [fh EXCEPT !.tried = Append(@, try_port)]
            /\ CASE portStatus[try_port] = "free" -> Bound(try_port)
                 [] portStatus[try_port] = "in_use" ->
                        \* errno.EADDRINUSE: continue
                        /\ fl' = [fl EXCEPT !.attempt = @ + 1]
                        /\ UNCHANGED <<portStatus, listeners>>
                 [] OTHER ->
                        \* any other OSError is re-raised
                        /\ fl' = Finished(Raised(AuthenticationError("OSError", {})))
                        /\ UNCHANGED <<portStatus, listeners>>
    /\ UNCHANGED <<notFlow, mgr, http>>

\* create_auth_url as run_local_server calls it: with _redirect_uri pointed
\* at the bound port when that is not the requested one, and put back after.
CreateAuthUrl ==
    /\ fl.pc = "url"
    /\ LET fallback == fl.actual_port # fl.port
           redirect_uri == IF fallback THEN fl.actual_port ELSE mgr.redirect_uri
       IN  IF ~mgr.configured
           THEN \* "OAuth not configured" propagates; the assignment that puts
                \* the original _redirect_uri back is not reached
                /\ mgr' = [mgr EXCEPT !.redirect_uri = redirect_uri]
                /\ fl' = Finished(Raised(AuthenticationError("NotConfigured", {})))
                /\ UNCHANGED fh
           ELSE \E s \in StateValues :
                /\ fl' = [fl EXCEPT !.pc = "open", !.state = s,
                                    !.auth_url = [redirect_uri |-> redirect_uri, state |-> s]]
                /\ fh' = [fh EXCEPT !.generated = @ + 1,
                                    !.boundAtGen = fl.actual_port \in listeners]
                /\ UNCHANGED mgr
    /\ UNCHANGED <<notFlow, portStatus, listeners, http>>

\* webbrowser.open(auth_url)
OpenBrowser ==
    /\ fl.pc = "open"
    /\ fh' = [fh EXCEPT !.opened = fl.auth_url]
    /\ fl' = [fl EXCEPT !.pc = "wait"]
    /\ UNCHANGED <<notFlow, mgr, portStatus, listeners, http>>

\* What one request leaves behind: result["code"], error, the response sent,
\* (status and the texts of its body), and whether the state was compared.
Handled(code, error, status, body, compared) ==
    [code |-> code, error |-> error, compared |-> compared,
     response |-> [status |-> status, body |-> body]]

Denied(params) ==
    Handled(Missing, AuthenticationError("OAuthError", {params["error"][1]}),
            400, {"Authentication Failed", "You can close this window."}, FALSE)
Mismatch ==
    Handled(Missing,
            AuthenticationError("StateMismatch", {"Request may have been tampered with"}),
            400, {"Security Error", "State mismatch. You can close this window."}, TRUE)
Accepted(code) == Handled(code, NoError, 200, {"Authentication Successful!"}, TRUE)
NoCode(params) ==
    Handled(Missing, AuthenticationError("NoAuthorizationCode", DOMAIN params),
            400, {"Error", "No authorization code received."}, TRUE)
NotFound == Handled(Missing, NoError, 404, {}, FALSE)

\* As DoGet, without the comparison of the returned state.
DoGet_NoStateCheck(request, state) ==
    IF request.path = CallbackPath
    THEN LET params == ParseQs(request.query) IN
         IF "error" \in DOMAIN params THEN Denied(params)
         ELSE IF Get(params, "code") # Missing THEN Accepted(Get(params, "code"))
         ELSE NoCode(params)
    ELSE NotFound

\* As DoGet, with the state compared before the error parameter is looked at.
DoGet_StateFirst(request, state) ==
    IF request.path = CallbackPath
    THEN LET params == ParseQs(request.query) IN
         IF Get(params, "state") # state THEN Mismatch
         ELSE IF "error" \in DOMAIN params THEN Denied(params)
         ELSE IF Get(params, "code") # Missing THEN Accepted(Get(params, "code"))
         ELSE NoCode(params)
    ELSE NotFound

\* CallbackHandler.do_GET; state is the closure variable of run_local_server.
DoGet(request, state) ==
    IF request.path = CallbackPath
    THEN LET params == ParseQs(request.query) IN
         IF "error" \in DOMAIN params THEN Denied(params)
         ELSE IF Get(params, "state") # state THEN Mismatch
         ELSE IF Get(params, "code") # Missing THEN Accepted(Get(params, "code"))
         ELSE NoCode(params)
    ELSE NotFound

\* server.handle_request(): a request arrived before the timeout.
HandleRequest(request) ==
    /\ fl.pc = "wait"
    /\ LET h == DoGet(request, fl.state) IN
        /\ fl' = [fl EXCEPT !.pc = "close", !.code = h.code, !.error = h.error]
        /\ http' = [request |-> request, response |-> h.response]
        /\ fh' = [fh EXCEPT !.compared = IF h.compared THEN fl.state ELSE Missing]
    /\ UNCHANGED <<notFlow, mgr, portStatus, listeners>>

\* server.handle_request(): server.timeout seconds went by without a request.
HandleRequest_Timeout ==
    /\ fl.pc = "wait"
    /\ fl' = [fl EXCEPT !.pc = "close"]
    /\ fh' = [fh EXCEPT !.timedOut = TRUE]
    /\ UNCHANGED <<notFlow, mgr, portStatus, listeners, http>>

\* server.server_close()
ServerClose ==
    /\ fl.pc = "close"
    /\ listeners' = listeners \ {fl.actual_port}
    /\ portStatus' = [portStatus EXCEPT ![fl.actual_port] = "free"]
    /\ fl' = [fl EXCEPT !.pc = "finish"]
    /\ UNCHANGED <<notFlow, mgr, http, fh>>

\* exchange_code(code): flow.fetch_token with the manager's _redirect_uri
ExchangeCode(code, ok) ==
    IF ~mgr.configured
    THEN /\ fl' = Finished(Raised(AuthenticationError("NotConfigured", {})))
         /\ UNCHANGED fh
    ELSE /\ fh' = [fh EXCEPT !.exchanged =
                        Append(@, [code |-> code, redirect_uri |-> mgr.redirect_uri])]
         /\ fl' = IF ok
                  THEN Finished([NoOutcome EXCEPT !.kind = "tokens"])
                  ELSE Finished(Raised(AuthenticationError("ExchangeFailed", {})))

\* As Finish, without the test that a code was recorded.
Finish_NoCodeCheck(ok) ==
    /\ fl.pc = "finish"
    /\ IF fl.error # NoError
       THEN /\ fl' = Finished(Raised(fl.error))
            /\ UNCHANGED fh
       ELSE ExchangeCode(fl.code, ok)
    /\ UNCHANGED <<notFlow, mgr, portStatus, listeners, http>>

\* The end of run_local_server: raise the handler's error, raise the
\* timed-out error, or exchange the code.
Finish(ok) ==
    /\ fl.pc = "finish"
    /\ IF fl.error # NoError
       THEN /\ fl' = Finished(Raised(fl.error))
            /\ UNCHANGED fh
       ELSE IF fl.code = Missing
       THEN /\ fl' = Finished(Raised(AuthenticationError("TimedOut", {})))
            /\ UNCHANGED fh
       ELSE ExchangeCode(fl.code, ok)
    /\ UNCHANGED <<notFlow, mgr, portStatus, listeners, http>>

NextFlow ==
    \/ \E port \in RequestPorts : RunLocalServer(port)
    \/ \E port \in RequestPorts : \E max_attempts \in 0..MaxAttempts :
            CreateServerCall(port, max_attempts)
    \/ CreateServer
    \/ CreateAuthUrl
    \/ OpenBrowser
    \/ \E request \in Requests : HandleRequest(request)
    \/ HandleRequest_Timeout
    \/ ServerClose
    \/ \E ok \in BOOLEAN : Finish(ok)

SpecFlow == InitFlow /\ [][NextFlow]_vars

(* ------------------------------ claims --------------------------------- *)
Done(t) == th[t].pc = "done"
InSection(t) == th[t].pc \in {"dcheck", "refresh", "save", "cache", "inval", "load"}

Step(t) ==
    \/ FastPath(t)
    \/ GetOrCreateRefreshLock(t)
    \/ AcquireRefreshLock(t)
    \/ DoubleCheck(t)
    \/ \E accept \in BOOLEAN : DoRefresh_Request(t, accept)
    \/ \E ok \in BOOLEAN : DoRefresh_Save(t, ok)
    \/ CacheAndReturn(t)
    \/ InvalidateAfterFailure(t)
    \/ LoadFromStorage(t)

\* C2: no two threads are inside the load/refresh section of get_service for
\* the same identity; every caller of an identity uses the one lock of that
\* identity, which is created at most once; and a thread is made to wait only
\* by a holder working on the same identity, every other call can take a step.
C2_PerIdentityExclusion ==
    /\ \A t1, t2 \in Threads :
         t1 # t2 /\ InSection(t1) /\ InSection(t2) => th[t1].user # th[t2].user
    /\ \A t \in Threads :
         th[t].pc = "acquire" \/ InSection(t) =>
             th[t].refresh_lock = refresh_locks[th[t].user]
    /\ Len(locks) = Cardinality({u \in Users : refresh_locks[u] # Null})
    /\ \A t \in Threads :
         th[t].pc \notin {"idle", "done"} =>
             \/ ENABLED Step(t)
             \/ /\ th[t].pc = "acquire"
                /\ locks[th[t].refresh_lock] # Null
                /\ th[locks[th[t].refresh_lock]].user = th[t].user

\* One thread refreshes inside the section while another one of the same
\* identity waits for the lock.
C2_Witness ==
    \E t1, t2 \in Threads :
        /\ t1 # t2 /\ th[t1].user = th[t2].user
        /\ th[t1].pc \in {"refresh", "save"}
        /\ th[t2].pc = "acquire"

ReturnStep(t) == th[t].pc # "done" /\ th'[t].pc = "done"

C4_NotAuthenticated ==
    \A t \in Threads :
        Done(t) /\ hist[t].startAbsent =>
            /\ th[t].result.kind = "NotAuthenticated"
            /\ hist[t].sent = 0
            /\ ~hist[t].added
            /\ ~services[th[t].user] /\ credentials[th[t].user] = NoEntry
            /\ store[th[t].user] = Absent

C4_Witness ==
    \E t \in Threads :
        /\ Done(t) /\ hist[t].startAbsent
        /\ th[t].result.kind = "NotAuthenticated"

\* A credential that cannot be used as it is at time n.
Unusable(c, n) == c.access_token = None \/ (ExpiredAt(c, n) /\ ~c.refresh_token)
\* ... and that get_service will not refresh either.
Refreshable(c, n) == ExpiredAt(c, n) /\ c.refresh_token

\* C5 as stated: get_service returns no client over a credential without
\* access token or expired without refresh token; when the cached or stored
\* credential it finds is of that kind it raises an authentication error,
\* sends no refresh request and adds no cache entry.
C5_Original ==
    \A t \in Threads :
        Done(t) =>
            /\ th[t].result.kind = "service" =>
                   ~Unusable(th[t].result.cred, hist[t].decidedAt)
            /\ \/ hist[t].cached.exists /\ Unusable(hist[t].cached, hist[t].seenAt)
               \/ hist[t].loaded.exists /\ Unusable(hist[t].loaded, hist[t].seenAt)
               => /\ th[t].result.kind \in AuthErrors
                  /\ hist[t].sent = 0
                  /\ ~hist[t].added

\* C5 amended: get_service returns no client over a credential that, when it
\* was judged, had no access token or was expired without refresh token; when
\* the credential loaded from the store is of that kind and is not both
\* expired and refreshable, the call raises the invalid-credentials error,
\* sends no refresh request and adds no cache entry; a stored credential
\* without access token that is expired and has a refresh token is refreshed.
C5_UnusableCredential ==
    \A t \in Threads :
        Done(t) =>
            /\ th[t].result.kind = "service" =>
                   ~Unusable(th[t].result.cred, hist[t].decidedAt)
            /\ /\ hist[t].loaded.exists
               /\ Unusable(hist[t].loaded, hist[t].seenAt)
               /\ ~Refreshable(hist[t].loaded, hist[t].seenAt)
               => /\ th[t].result.kind = "InvalidCredentials"
                  /\ hist[t].sent = 0
                  /\ ~hist[t].added
            /\ /\ hist[t].loaded.exists
               /\ hist[t].loaded.access_token = None
               /\ Refreshable(hist[t].loaded, hist[t].seenAt)
               => hist[t].sent >= 1

\* A call that found a cached credential expired without refresh token, loaded
\* the same from the store and raised.
C5_Witness ==
    \E t \in Threads :
        /\ Done(t)
        /\ hist[t].cached.exists /\ Unusable(hist[t].cached, hist[t].seenAt)
        /\ hist[t].loaded.exists /\ Unusable(hist[t].loaded, hist[t].seenAt)
        /\ th[t].result.kind = "InvalidCredentials"

(* ------------------------- claims: OAuth flow --------------------------- *)
Present(query, key) == query[key] # <<>>
NonBlank(query, key) == Present(query, key) /\ query[key][1] # ""
\* The state a callback carries, Missing when it carries none.
ReturnedState(query) == IF Present(query, "state") THEN query.state[1] ELSE Missing
CallbackHandled == fl.op = "run_local_server" /\ http.request.path = CallbackPath
BadState == CallbackHandled /\ ReturnedState(http.request.query) # fh.opened.state
FlowDone == fl.op = "run_local_server" /\ fl.pc = "done"
NoLeak ==
    /\ fh.opened.state \notin http.response.body
    /\ fl.error.kind = "StateMismatch" => fh.opened.state \notin fl.error.details

\* C6 as stated: a callback whose state is missing or differs from the state
\* of the opened URL always ends the flow with the state-mismatch error, its
\* code is neither recorded nor exchanged, and the expected state is in
\* neither the response nor the error details.
C6_Original ==
    BadState =>
        /\ fl.error.kind = "StateMismatch"
        /\ FlowDone => fl.outcome.error.kind = "StateMismatch"
        /\ fl.code = Missing
        /\ fh.exchanged = <<>>
        /\ NoLeak

\* C6 (amended): a callback whose state is missing or differs from the state
\* of the opened URL never has its code recorded or exchanged and never gets
\* the expected state back; the flow fails with the state-mismatch error when
\* the callback has no error parameter, and with the provider's error when
\* it has one.
C6_StateMismatch ==
    BadState =>
        LET kind == IF NonBlank(http.request.query, "error")
                    THEN "OAuthError" ELSE "StateMismatch"
        IN  /\ fl.error.kind = kind
            /\ FlowDone => fl.outcome.error.kind = kind
            /\ fl.code = Missing
            /\ fh.exchanged = <<>>
            /\ NoLeak

C6_Witness ==
    /\ FlowDone
    /\ BadState
    /\ ~Present(http.request.query, "error")
    /\ NonBlank(http.request.query, "code")
    /\ fl.outcome.error.kind = "StateMismatch"

\* C7 as stated: in every run_local_server attempt that opens a URL, one
\* state was generated, after the bind, the opened URL's redirect URI names
\* the bound port, and the state compared on callback is the URL's state.
C7_Original ==
    /\ fh.generated <= 1
    /\ (fl.op = "run_local_server" /\ fh.opened # NoUrl) =>
        /\ fh.generated = 1
        /\ fh.boundAtGen
        /\ fh.opened.redirect_uri = fl.actual_port
        /\ fh.compared # Missing => fh.compared = fh.opened.state

\* What the flow must hold after a callback that falls under one rule.
Rejected(kind, details) ==
    /\ fl.error = AuthenticationError(kind, details)
    /\ http.response.status = 400
    /\ fl.code = Missing
Recorded(code) ==
    /\ fl.error = NoError
    /\ http.response.status = 200
    /\ fl.code = code

\* C8: the handled callback is classified by the first rule that matches:
\* error present -> provider-denied with the provider's error, 400; else state
\* mismatch -> 400; else code missing -> 400; else the code is recorded, 200;
\* and exactly one of code and error is recorded, a code only in the last
\* case.  A parameter is present when the query gives it a non-empty value
\* (parse_qs drops the empty ones before the handler looks).
C8_Classification ==
    CallbackHandled =>
        LET q == http.request.query IN
        /\ IF NonBlank(q, "error") THEN Rejected("OAuthError", {q.error[1]})
           ELSE IF ReturnedState(q) # fl.state
                THEN Rejected("StateMismatch", fl.error.details)
           ELSE IF ~NonBlank(q, "code")
                THEN Rejected("NoAuthorizationCode", fl.error.details)
           ELSE Recorded(q.code[1])
        /\ (fl.code # Missing) # (fl.error # NoError)

\* A callback that matches the first two rules is handled by the first.
C8_Witness ==
    /\ CallbackHandled
    /\ NonBlank(http.request.query, "error")
    /\ ReturnedState(http.request.query) # fl.state
    /\ NonBlank(http.request.query, "code")
    /\ Rejected("OAuthError", {"access_denied"})

IsPrefix(s, t) == Len(s) <= Len(t) /\ \A i \in 1..Len(s) : s[i] = t[i]
\* The ports _create_server(port, max_attempts) may try.
AttemptRange == Range(fl.port, fl.max_attempts)
\* _create_server has returned or raised.
CreateServerOver == fl.op # "none" /\ fl.pc # "bind"
\* Was the port in use by somebody else when the call tried it: the port the
\* call bound itself is in use only since.
InUse(p) == portStatus[p] = "in_use" /\ p # fl.actual_port
Unbound == fl.actual_port = Null /\ listeners = {}
\* The ports are tried in increasing order from port on, never beyond the
\* range, and the call never holds two listeners.
InOrder ==
    /\ IsPrefix(fh.tried, AttemptRange)
    /\ Cardinality(listeners) <= 1
    /\ listeners \subseteq {fl.actual_port}
    /\ fl.actual_port # Null => fl.actual_port = fh.tried[Len(fh.tried)]

\* C9 as stated: the ports are tried in order, the first port of the range
\* that is not in use is bound and returned, and when every port is in use
\* the error lists exactly the attempted ports.
C9_Original ==
    fl.op # "none" =>
        /\ InOrder
        /\ CreateServerOver =>
            LET free == {i \in 1..fl.max_attempts : ~InUse(AttemptRange[i])} IN
            IF free # {}
            THEN fl.actual_port = AttemptRange[CHOOSE i \in free : \A j \in free : i <= j]
            ELSE /\ fl.outcome.error.kind = "PortExhausted"
                 /\ fl.outcome.attempted_ports = AttemptRange
                 /\ fh.tried = AttemptRange
                 /\ Unbound

\* C9 (amended): the ports are tried in order; a port whose bind fails
\* because the address is in use is passed over; the first port whose bind
\* does not fail that way is bound and returned when its bind succeeds, and
\* ends the call with the operating system's error, nothing bound and no
\* further port tried, when its bind fails for another reason; when every
\* port is in use the error lists exactly the attempted ports.
C9_CreateServer ==
    fl.op # "none" =>
        /\ InOrder
        /\ CreateServerOver =>
            LET free == {i \in 1..fl.max_attempts : ~InUse(AttemptRange[i])} IN
            IF free # {}
            THEN LET first == AttemptRange[CHOOSE i \in free : \A j \in free : i <= j] IN
                 /\ fh.tried[Len(fh.tried)] = first
                 /\ IF portStatus[first] = "denied"
                    THEN fl.outcome.error.kind = "OSError" /\ Unbound
                    ELSE fl.actual_port = first
            ELSE /\ fl.outcome.error.kind = "PortExhausted"
                 /\ fl.outcome.attempted_ports = AttemptRange
                 /\ fh.tried = AttemptRange
                 /\ Unbound

\* The primary port is occupied and the call returns a listener on port+1.
C9_Witness ==
    /\ fl.op = "create_server"
    /\ fl.pc = "done"
    /\ fl.outcome.kind = "server"
    /\ fl.outcome.port = fl.port + 1
    /\ listeners = {fl.port + 1}

NoCallback == fh.timedOut
TimedOutError == FlowDone /\ fl.outcome.error.kind = "TimedOut"

InitPoll ==
    /\ CacheIdle
    /\ mgr \in {[configured |-> c, oauth_port |-> DefaultPort, redirect_uri |-> DefaultPort] :
                    c \in BOOLEAN}
    /\ portStatus = [p \in AllPorts |-> "free"]
    /\ listeners = {}
    /\ fl = IdleFlow
    /\ http = [request |-> NoRequest, response |-> NoResponse]
    /\ fh = NoFlowHist
    /\ PollIdle
    /\ RestIdle

Count(n) == IF n < PollCap THEN n + 1 ELSE PollCap
PollFinished(kind, keys) ==
    pl' = [pl EXCEPT !.pc = "done", !.outcome = [kind |-> kind, keys |-> keys]]

\* poll_device_flow(device_code, interval, timeout) up to the loop
PollDeviceFlow(interval, timeout) ==
    /\ pl.pc = "idle"
    /\ IF ~mgr.configured
       THEN PollFinished("NotConfigured", {})
       ELSE pl' = [IdlePoll EXCEPT !.pc = "while", !.interval = interval,
                                   !.timeout = timeout, !.current_interval = interval]
    /\ UNCHANGED <<notPoll, ph>>

\* `while elapsed < timeout`: send the next token request, or leave the loop
\* and raise the timed-out error.
PollWhile ==
    /\ pl.pc = "while"
    /\ IF pl.elapsed < pl.timeout
       THEN /\ pl' = [pl EXCEPT !.pc = "post"]
            /\ ph' = [ph EXCEPT !.requests = Count(@)]
       ELSE /\ PollFinished("PollTimedOut", {})
            /\ UNCHANGED ph
    /\ UNCHANGED notPoll

\* time.sleep(seconds); elapsed += seconds; back to the loop test
SleepAndRetry(response, seconds) ==
    /\ pl' = [pl EXCEPT !.pc = "while", !.current_interval = seconds,
                        !.elapsed = @ + seconds]
    /\ ph' = [ph EXCEPT !.last = response, !.slept = seconds, !.sleeps = Count(@)]

\* The poll ends on this response.
EndPoll(response, kind, keys) ==
    /\ PollFinished(kind, keys)
    /\ ph' = [ph EXCEPT !.last = response, !.slept = None]

\* As PollResponse, with slow_down putting the interval back to its initial value.
PollResponse_ResetInterval(response) ==
    /\ pl.pc = "post"
    /\ CASE response = "access_token" -> EndPoll(response, "tokens", PollTokenKeys)
         [] response = "authorization_pending" -> SleepAndRetry(response, pl.current_interval)
         [] response = "slow_down" -> SleepAndRetry(response, pl.interval)
         [] response = "access_denied" -> EndPoll(response, "UserDenied", {})
         [] response = "expired_token" -> EndPoll(response, "DeviceCodeExpired", {})
         [] response = "RequestException" -> SleepAndRetry(response, pl.current_interval)
         [] OTHER -> EndPoll(response, "DeviceFlowError", {})
    /\ UNCHANGED notPoll

\* As PollResponse, with expired_token treated as a response to wait on.
PollResponse_RetryExpired(response) ==
    /\ pl.pc = "post"
    /\ CASE response = "access_token" -> EndPoll(response, "tokens", PollTokenKeys)
         [] response = "authorization_pending" -> SleepAndRetry(response, pl.current_interval)
         [] response = "slow_down" ->
                SleepAndRetry(response, pl.current_interval + SlowDownStep)
         [] response = "access_denied" -> EndPoll(response, "UserDenied", {})
         [] response = "expired_token" -> SleepAndRetry(response, pl.current_interval)
         [] response = "RequestException" -> SleepAndRetry(response, pl.current_interval)
         [] OTHER -> EndPoll(response, "DeviceFlowError", {})
    /\ UNCHANGED notPoll

\* The body of the loop once requests.post has returned or raised.
PollResponse(response) ==
    /\ pl.pc = "post"
    /\ CASE response = "access_token" -> EndPoll(response, "tokens", PollTokenKeys)
         [] response = "authorization_pending" -> SleepAndRetry(response, pl.current_interval)
         [] response = "slow_down" ->
                SleepAndRetry(response, pl.current_interval + SlowDownStep)
         [] response = "access_denied" -> EndPoll(response, "UserDenied", {})
         [] response = "expired_token" -> EndPoll(response, "DeviceCodeExpired", {})
         [] response = "RequestException" -> SleepAndRetry(response, pl.current_interval)
         [] OTHER -> EndPoll(response, "DeviceFlowError", {})
    /\ UNCHANGED notPoll

NextPoll ==
    \/ \E interval \in 0..MaxInterval : \E timeout \in 0..MaxTimeout :
            PollDeviceFlow(interval, timeout)
    \/ PollWhile
    \/ \E response \in PollResponses : PollResponse(response)

SpecPoll == InitPoll /\ [][NextPoll]_vars

\* The thread running the poll is scheduled and every request is answered
\* or fails.
SpecPollFair == SpecPoll /\ WF_vars(NextPoll)

(* ------------------------- claims: device flow -------------------------- *)
\* The step in which the poll handles the answer to a token request.
Answered(response) == pl.pc = "post" /\ pl'.pc # "post" /\ ph'.last = response
SleptFor(seconds) ==
    /\ ph'.slept = seconds
    /\ ph'.sleeps = Count(ph.sleeps)
    /\ pl'.elapsed = pl.elapsed + seconds
    /\ pl'.pc = "while"
NoSleep == ph'.sleeps = ph.sleeps /\ pl'.elapsed = pl.elapsed

\* C11: authorization_pending leaves the interval unchanged, slow_down raises
\* it by exactly the fixed step before the sleep; either is followed by a
\* sleep of the interval and, while elapsed is below the timeout, by another
\* token request; the interval never decreases during a poll.
C11_Polling ==
    [][ /\ Answered("authorization_pending") =>
              /\ pl'.current_interval = pl.current_interval
              /\ SleptFor(pl.current_interval)
        /\ Answered("slow_down") =>
              /\ pl'.current_interval = pl.current_interval + SlowDownStep
              /\ SleptFor(pl.current_interval + SlowDownStep)
        /\ (pl.pc = "while" /\ pl.elapsed < pl.timeout /\ pl' # pl) =>
              /\ pl'.pc = "post"
              /\ ph'.requests = Count(ph.requests)
        /\ pl.pc \notin {"idle", "done"} /\ pl'.pc # "done" =>
              pl'.current_interval >= pl.current_interval
      ]_vars

\* A slow_down was answered by a longer sleep and another request went out.
C11_Witness ==
    /\ pl.pc = "post"
    /\ ph.last = "slow_down"
    /\ ph.slept = pl.interval + SlowDownStep
    /\ pl.current_interval = pl.interval + SlowDownStep
    /\ ph.requests = 2

PollErrorOf(response) ==
    CASE response = "access_denied" -> "UserDenied"
      [] response = "expired_token" -> "DeviceCodeExpired"
      [] OTHER -> "DeviceFlowError"

\* C12: access_denied, expired_token and any other error that is neither
\* authorization_pending nor slow_down end the poll at once with the typed
\* error, a response with an access_token ends it with success; after either
\* no request is sent and no sleep happens.
C12_Terminal ==
    [][ /\ \A response \in FatalResponses :
              Answered(response) =>
                  /\ pl'.pc = "done"
                  /\ pl'.outcome.kind = PollErrorOf(response)
                  /\ NoSleep
        /\ Answered("access_token") =>
              /\ pl'.pc = "done"
              /\ pl'.outcome.kind = "tokens"
              /\ NoSleep
        /\ pl.pc = "done" => pl' = pl /\ ph' = ph
      ]_vars

C12_Witness ==
    /\ pl.pc = "done"
    /\ ph.last = "expired_token"
    /\ pl.outcome.kind = "DeviceCodeExpired"
    /\ ph.requests = 2
    /\ ph.sleeps = 1

\* C13 as stated: for every interval >= 0 and timeout >= 0 the poll
\* terminates; a network error never ends it; once elapsed has reached the
\* timeout no request is sent and the poll fails with the timed-out error;
\* the number of requests is bounded by the timeout.
C13_Original ==
    /\ <>(pl.pc = "done")
    /\ [](pl.pc = "done" /\ ph.last = "RequestException" => pl.outcome.kind = "PollTimedOut")
    /\ [](pl.pc = "done" /\ pl.elapsed >= pl.timeout /\ ph.last \in {"none", "RequestException"} \cup PendingResponses
              => pl.outcome.kind \in {"PollTimedOut", "NotConfigured"})
    /\ [](ph.requests <= pl.timeout)

(* ---------------- _token_path and the encryption functions -------------- *)
InitPure ==
    /\ CacheIdle
    /\ FlowIdle
    /\ PollIdle
    /\ StorageIdle
    /\ LoginIdle
    /\ PureIdle
    /\ HitlIdle
    /\ LockIdle

\* _token_path(user_id)
TokenPathCall(user_id) ==
    /\ tp.result = NoPath
    /\ tp' = [user_id |-> user_id, result |-> TokenPath(user_id)]
    /\ UNCHANGED <<notPure, cr>>

NextPath == \E user_id \in UserIds : TokenPathCall(user_id)

SpecPath == InitPure /\ [][NextPath]_vars

\* decrypt_data(e["iv"], e["ciphertext"], key) for e = encrypt_data(plaintext, key)
RoundTripData(plaintext, key, iv) ==
    /\ cr = NoCrypt
    /\ LET e == EncryptData(plaintext, key, iv) IN
        cr' = [op |-> "data", plaintext |-> plaintext, key |-> key, encrypted |-> e,
               decrypted |-> IF Failed(e) THEN e ELSE DecryptData(e.iv, e.ciphertext, key)]
    /\ UNCHANGED <<notPure, tp>>

\* decrypt_token(encrypt_token(token_data)) under TOKEN_ENCRYPTION_KEY = hex_key
RoundTripToken(token_data, hex_key, iv) ==
    /\ cr = NoCrypt
    /\ LET e == EncryptToken(token_data, hex_key, iv) IN
        cr' = [op |-> "token", token_data |-> token_data, hex_key |-> hex_key,
               encrypted |-> e,
               decrypted |-> IF Failed(e) THEN e ELSE DecryptToken(e, hex_key)]
    /\ UNCHANGED <<notPure, tp>>


(* ------------------- claims: token path, encryption --------------------- *)
\* C19: _token_path fails with the invalid-identity error exactly when no
\* allowed character is left after filtering, and otherwise returns a direct
\* child of the storage directory whose name is made of alphanumerics, '-',
\* '_' and '.' followed by the fixed suffix: no separator and no '@' survive.
C19_TokenPath ==
    tp.result # NoPath =>
        LET name == tp.result.name
            kept == {i \in 1..Len(tp.user_id) : Kept(tp.user_id[i])}
        IN  /\ tp.result.kind = "TokenError" <=> kept = {}
            /\ tp.result.kind \in {"TokenError", "path"}
            /\ tp.result.kind = "path" =>
                /\ tp.result.parent = BaseDir
                /\ Len(name) >= 2
                /\ name[Len(name)] = Suffix
                /\ \A i \in 1..(Len(name) - 1) : name[i] \in Alnum \cup {"-", "_", "."}

\* An identity with a separator and an '@' that yields a path.
C19_Witness ==
    /\ tp.result.kind = "path"
    /\ \E i \in 1..Len(tp.user_id) : tp.user_id[i] = "/"
    /\ \E i \in 1..Len(tp.user_id) : tp.user_id[i] = "@"

ValidKey(key) == key.len = KEY_SIZE_BYTES
ConfiguredKey(hex_key) ==
    ~Failed(GetEncryptionKey(hex_key)) /\ ValidKey(GetEncryptionKey(hex_key).key)
DataRoundTrip ==
    (cr.op = "data" /\ ValidKey(cr.key)) =>
        cr.decrypted.kind = "ok" /\ cr.decrypted.plaintext = cr.plaintext

JsonNative(token_data) == \A k \in DOMAIN token_data : token_data[k].type # "tuple"

PyNone == Py("NoneType", <<>>)
Returned(value) == [kind |-> "returned", value |-> value]
\* TokenError raised; cause tells a failing system call from an unusable key
\* or file content.
TokenError(cause) == [kind |-> "raised", error |-> "TokenError", cause |-> cause]

\* Records handed to save: what polling, the code exchange and a refresh
\* produce.
StorageTokens ==
    {TokenRecord(PollTokenKeys, "ya29.a"), TokenRecord(ExchangeTokenKeys(FALSE), "ya29.a"),
     TokenRecord(RefreshTokenKeys(TRUE), "ya29.b")}
\* TOKEN_ENCRYPTION_KEY of the process: unset, usable, or too short.
StorageHexKeys == {NoHexKey, ValidHexKey, [ValidHexKey EXCEPT !.len = HEX_KEY_LENGTH - 2]}
\* What of the text a write leaves in the file.
WriteOutcomes == {"full", "partial", "empty"}

InitStorage ==
    /\ CacheIdle
    /\ FlowIdle
    /\ PollIdle
    /\ LoginIdle
    /\ PureIdle
    /\ HitlIdle
    /\ LockIdle
    /\ fs = [u \in Users |-> NoFile]
    /\ env \in [hex_key : StorageHexKeys, umask : Umasks]
    /\ so = IdleStorage
    /\ sh = NoStorageHist

StorageFree == so.pc \in {"idle", "done"}
StorageDone(result) == so' = [so EXCEPT !.pc = "done", !.result = result]
\* A call starts: remember the file and the map entry it finds.
Called(user_id) == [sh EXCEPT !.file = fs[user_id], !.entry = sh.map[user_id]]

\* save(user_id, token_data) up to encrypt_token; iv is what os.urandom returns
SaveEntry(user_id, token_data, iv) ==
    /\ StorageFree
    /\ sh' = Called(user_id)
    /\ LET encrypted == EncryptToken(token_data, env.hex_key, iv)
       IN  so' = [pc |-> IF Failed(encrypted) THEN "done" ELSE "open",
                  op |-> "save", user |-> user_id, token_data |-> token_data,
                  encrypted |-> IF Failed(encrypted) THEN NoEncrypted ELSE encrypted,
                  result |-> IF Failed(encrypted) THEN TokenError("key") ELSE NoOpResult]

Save(user_id, token_data, iv) ==
    /\ SaveEntry(user_id, token_data, iv)
    /\ UNCHANGED <<fs, env, notStorage>>

\* path.write_text: open(path, "w") creates the file with the mode the umask
\* leaves, or truncates the one there and keeps its mode.
SaveOpen(ok) ==
    /\ so.pc = "open"
    /\ IF ok
       THEN /\ fs' = [fs EXCEPT ![so.user] =
                        File("empty", NoEncrypted,
                             IF @.exists THEN @.mode ELSE CreateMode(env.umask))]
            /\ so' = [so EXCEPT !.pc = "write"]
       ELSE /\ StorageDone(TokenError("io"))
            /\ UNCHANGED fs
    /\ UNCHANGED <<env, sh, notStorage>>

\* path.write_text: write the JSON text and close; the write may stop early.
SaveWrite(written) ==
    /\ so.pc = "write"
    /\ fs' = [fs EXCEPT ![so.user] =
                File(written, IF written = "empty" THEN NoEncrypted ELSE so.encrypted,
                     @.mode)]
    /\ IF written = "full"
       THEN /\ so' = [so EXCEPT !.pc = "chmod"]
            /\ UNCHANGED sh
       ELSE /\ StorageDone(TokenError("io"))
            /\ sh' = [sh EXCEPT !.clean[so.user] = FALSE]
    /\ UNCHANGED <<env, notStorage>>

\* path.chmod(0o600), then save returns
SaveChmod(ok) ==
    /\ so.pc = "chmod"
    /\ IF ok
       THEN /\ fs' = [fs EXCEPT ![so.user].mode = OwnerOnly]
            /\ StorageDone(Returned(PyNone))
            /\ sh' = [sh EXCEPT !.map[so.user] = so.token_data]
       ELSE /\ StorageDone(TokenError("io"))
            /\ sh' = [sh EXCEPT !.clean[so.user] = FALSE]
            /\ UNCHANGED fs
    /\ UNCHANGED <<env, notStorage>>

\* The process dies inside save; the files stay as they are.
Crash ==
    /\ so.pc \in {"open", "write", "chmod"}
    /\ so' = [IdleStorage EXCEPT !.user = so.user]
    /\ sh' = [sh EXCEPT !.clean[so.user] = IF so.pc = "open" THEN @ ELSE FALSE]
    /\ UNCHANGED <<fs, env, notStorage>>

\* What load yields on a file: None without one, the decrypted record, or
\* TokenError for text that is not JSON or does not decrypt.
LoadOutcome(file, hex_key) ==
    IF ~file.exists THEN Returned(PyNone)
    ELSE IF file.written # "full" THEN TokenError("content")
    ELSE LET token_data == DecryptToken(file.encrypted, hex_key)
         IN  IF Failed(token_data) THEN TokenError("key")
             ELSE Returned(token_data.token_data)

\* load(user_id); reading the file may fail
LoadToken(user_id, ok) ==
    /\ StorageFree
    /\ sh' = Called(user_id)
    /\ so' = [IdleStorage EXCEPT !.pc = "done", !.op = "load", !.user = user_id,
                !.result = IF fs[user_id].exists /\ ~ok THEN TokenError("io")
                           ELSE LoadOutcome(fs[user_id], env.hex_key)]
    /\ UNCHANGED <<fs, env, notStorage>>

\* As Delete, reporting the removal without unlinking the file.
Delete_KeepFile(user_id, ok) ==
    /\ StorageFree
    /\ sh' = IF fs[user_id].exists /\ ok
             THEN [Called(user_id) EXCEPT !.map[user_id] = NoToken]
             ELSE Called(user_id)
    /\ so' = [IdleStorage EXCEPT !.pc = "done", !.op = "delete", !.user = user_id,
                !.result = IF ~fs[user_id].exists THEN Returned(FALSE)
                           ELSE IF ok THEN Returned(TRUE) ELSE TokenError("io")]
    /\ UNCHANGED <<fs, env, notStorage>>

\* delete(user_id); unlink may fail
Delete(user_id, ok) ==
    /\ StorageFree
    /\ sh' = IF fs[user_id].exists /\ ok
             THEN [Called(user_id) EXCEPT !.map[user_id] = NoToken]
             ELSE Called(user_id)
    /\ so' = [IdleStorage EXCEPT !.pc = "done", !.op = "delete", !.user = user_id,
                !.result = IF ~fs[user_id].exists THEN Returned(FALSE)
                           ELSE IF ok THEN Returned(TRUE) ELSE TokenError("io")]
    /\ fs' = [fs EXCEPT ![user_id] = IF @.exists /\ ok THEN NoFile ELSE @]
    /\ UNCHANGED <<env, notStorage>>

\* exists(user_id)
Exists(user_id) ==
    /\ StorageFree
    /\ sh' = Called(user_id)
    /\ so' = [IdleStorage EXCEPT !.pc = "done", !.op = "exists", !.user = user_id,
                !.result = Returned(fs[user_id].exists)]
    /\ UNCHANGED <<fs, env, notStorage>>

NextStorage ==
    \/ \E user_id \in Users, token_data \in StorageTokens, iv \in Ivs :
            Save(user_id, token_data, iv)
    \/ \E ok \in BOOLEAN : SaveOpen(ok)
    \/ \E written \in WriteOutcomes : SaveWrite(written)
    \/ \E ok \in BOOLEAN : SaveChmod(ok)
    \/ Crash
    \/ \E user_id \in Users, ok \in BOOLEAN : LoadToken(user_id, ok)
    \/ \E user_id \in Users, ok \in BOOLEAN : Delete(user_id, ok)
    \/ \E user_id \in Users : Exists(user_id)

SpecStorage == InitStorage /\ [][NextStorage]_vars

(* ----------------------- token storage: claims -------------------------- *)
StorageEnded(op) == so.pc = "done" /\ so.op = op
\* The call met no failing system call.
NoIoError == so.result # TokenError("io")
\* The record the map holds for the identity, as load reports it.
MapLoad(entry) == IF entry = NoToken THEN Returned(PyNone) ELSE Returned(entry)

Complete(file) == file.exists /\ file.written = "full"

\* C17 as stated: a token file never holds an empty or partial text, a save
\* that returned has left its full text in the file, and a save that raised
\* has left the file it found.
C17_Original ==
    /\ \A u \in Users : fs[u].exists => Complete(fs[u])
    /\ (StorageEnded("save") /\ so.result.kind = "returned") =>
            Complete(fs[so.user]) /\ fs[so.user].encrypted = so.encrypted
    /\ (StorageEnded("save") /\ so.result.kind = "raised" /\ Complete(sh.file)) =>
            fs[so.user] = sh.file

\* C18 as stated: a token file that holds an encrypted record is readable
\* and writable by its owner only.
C18_Original ==
    \A u \in Users : Complete(fs[u]) => fs[u].mode = OwnerOnly

(* ======================================================================== *)
(* gmail_login (tools/auth/login.py): the device flow, the profile lookup,  *)
(* the save of the token under "default" and the cache invalidation.        *)
(* ======================================================================== *)
\* A cached service over a valid credential, as get_service leaves it.
CachedCredential ==
    [access_token |-> 0, refresh_token |-> TRUE, expiry |-> None, exists |-> TRUE]

InitLogin ==
    /\ CacheIdle
    /\ mgr \in {[configured |-> c, oauth_port |-> DefaultPort, redirect_uri |-> DefaultPort] :
                    c \in BOOLEAN}
    /\ portStatus = [p \in AllPorts |-> "free"]
    /\ listeners = {}
    /\ fl = IdleFlow
    /\ http = [request |-> NoRequest, response |-> NoResponse]
    /\ fh = NoFlowHist
    /\ PollIdle
    /\ StorageIdle
    /\ LoginIdle
    /\ PureIdle
    /\ HitlIdle
    /\ LockIdle

LoginFree == lg.pc \in {"idle", "done"}

\* get_service has put a service for "default" into the cache.
CacheService ==
    /\ LoginFree
    /\ ~services["default"]
    /\ services' = [services EXCEPT !["default"] = TRUE]
    /\ credentials' = [credentials EXCEPT !["default"] = CachedCredential]
    /\ UNCHANGED <<notLogin, th, pollVars, fs, so, sh, lg>>

Snapshot == [fs |-> fs, services |-> services, credentials |-> credentials]
\* gmail_login returns the response.
LoginReturns(response) ==
    lg' = [lg EXCEPT !.pc = "done", !.response = response,
                     !.intact = (Snapshot = lg.before)]

\* gmail_login(device_code) up to the call of poll_device_flow; without a
\* device code it starts the device flow, whose request succeeds or not.
GmailLogin(device_code, started) ==
    /\ LoginFree
    /\ StorageFree
    /\ IF ~mgr.configured
       THEN /\ lg' = [IdleLogin EXCEPT !.pc = "done", !.response = "ConfigurationError",
                                       !.before = Snapshot]
            /\ UNCHANGED pollVars
       ELSE IF ~device_code
       THEN /\ lg' = [IdleLogin EXCEPT !.pc = "done", !.before = Snapshot,
                        !.response = IF started THEN "awaiting_user_action"
                                     ELSE "AuthenticationError"]
            /\ UNCHANGED pollVars
       ELSE /\ lg' = [IdleLogin EXCEPT !.pc = "poll", !.before = Snapshot]
            /\ pl' = [IdlePoll EXCEPT !.pc = "while", !.interval = DefaultInterval,
                                      !.timeout = DefaultPollTimeout,
                                      !.current_interval = DefaultInterval]
            /\ ph' = NoPollHist
    /\ UNCHANGED <<notLogin, services, credentials, th, storageVars>>

\* poll_device_flow has returned the token record or raised.
LoginPolled ==
    /\ lg.pc = "poll"
    /\ pl.pc = "done"
    /\ IF pl.outcome.kind = "tokens"
       THEN lg' = [lg EXCEPT !.pc = "profile",
                             !.token_data = TokenRecord(pl.outcome.keys, "ya29.a")]
       ELSE LoginReturns("AuthenticationError")
    /\ pl' = IdlePoll
    /\ ph' = NoPollHist
    /\ UNCHANGED <<notLogin, services, credentials, th, storageVars>>

\* get_credentials, build and getProfile, which succeed or raise, and then
\* token_storage.save("default", token_data) up to encrypt_token.
LoginProfile(ok, iv) ==
    /\ lg.pc = "profile"
    /\ IF ok
       THEN /\ SaveEntry("default", lg.token_data, iv)
            /\ lg' = [lg EXCEPT !.pc = "save"]
       ELSE /\ LoginReturns("LoginError")
            /\ UNCHANGED <<so, sh>>
    /\ UNCHANGED <<notLogin, services, credentials, th, pollVars, fs>>

\* token_storage.save has returned or raised TokenError, an AuthenticationError;
\* its locals die.
LoginSaved ==
    /\ lg.pc = "save"
    /\ so.pc = "done"
    /\ IF so.result.kind = "returned"
       THEN lg' = [lg EXCEPT !.pc = "invalidate"]
       ELSE LoginReturns("AuthenticationError")
    /\ so' = IdleStorage
    /\ sh' = [sh EXCEPT !.file = NoFile, !.entry = NoToken]
    /\ UNCHANGED <<notLogin, services, credentials, th, pollVars, fs>>

\* gmail_client.invalidate("default"), then the success response
LoginInvalidate ==
    /\ lg.pc = "invalidate"
    /\ InvalidateUnlocked("default")
    /\ th' = Unaliased("default")
    /\ lg' = [lg EXCEPT !.pc = "done", !.response = "success", !.intact = FALSE]
    /\ UNCHANGED <<notLogin, pollVars, storageVars>>

NextLogin ==
    \/ CacheService
    \/ \E device_code \in BOOLEAN, started \in BOOLEAN : GmailLogin(device_code, started)
    \/ PollWhile
    \/ \E response \in PollResponses : PollResponse(response)
    \/ LoginPolled
    \/ \E ok \in BOOLEAN, iv \in Ivs : LoginProfile(ok, iv)
    \/ \E ok \in BOOLEAN : SaveOpen(ok)
    \/ \E written \in WriteOutcomes : SaveWrite(written)
    \/ \E ok \in BOOLEAN : SaveChmod(ok)
    \/ LoginSaved
    \/ LoginInvalidate

SpecLogin == InitLogin /\ [][NextLogin]_vars

(* ------------------- token records and login: claims -------------------- *)
\* The keys of the record whose JSON text a token file holds encrypted.
StoredKeys(file) == DOMAIN JsonLoads(FromHex(file.encrypted.ciphertext).sealed)

CacheSnapshot == [services |-> services, credentials |-> credentials]
CacheBefore == [services |-> lg.before.services, credentials |-> lg.before.credentials]

\* C15 as stated: gmail_login touches no token file before the poll has
\* returned a record and the profile lookup has succeeded, touches the cache
\* only after the file is written, and a call that returns anything but
\* success has left token files and cache as it found them.
C15_Original ==
    /\ lg.pc \in {"poll", "profile"} => Snapshot = lg.before
    /\ lg.pc = "save" => CacheSnapshot = CacheBefore
    /\ lg.pc = "invalidate" =>
            /\ CacheSnapshot = CacheBefore
            /\ Complete(fs["default"])
            /\ StoredKeys(fs["default"]) = DOMAIN lg.token_data
    /\ (lg.pc = "done" /\ lg.response # "success") => lg.intact

(* ======================================================================== *)
(* encryption.py and tokens.py called on their own: decryption of what was  *)
(* not encrypted so, key_from_hex, and two encryptions in a row.            *)
(* ======================================================================== *)
\* An IV handed to decrypt_data: of the right length or one byte short.
GivenIvs == [len : {IV_SIZE_BYTES, IV_SIZE_BYTES - 1}, id : KeyIds]
\* A key nobody holds: what a ciphertext changed in some bit authenticates under.
NoKey == [len |-> KEY_SIZE_BYTES, id |-> 0]
\* The ciphertext with bits changed, carrying another plaintext.
Tampered(ciphertext, plaintext) == [ciphertext EXCEPT !.key = NoKey, !.sealed = plaintext]

\* decrypt_data(iv2, c, key2) for e = encrypt_data(plaintext, key), c being
\* e["ciphertext"] or a changed copy of it
DecryptOther(plaintext, key, iv, key2, iv2, other) ==
    /\ cr = NoCrypt
    /\ LET e == EncryptData(plaintext, key, iv)
           c == IF other = plaintext THEN e.ciphertext ELSE Tampered(e.ciphertext, other)
       IN  /\ ~Failed(e)
           /\ cr' = [op |-> "other", plaintext |-> plaintext, key |-> key, iv |-> iv,
                     key2 |-> key2, iv2 |-> iv2, tampered |-> other # plaintext,
                     decrypted |-> DecryptData(iv2, c, key2)]
    /\ UNCHANGED <<notPure, tp>>

\* What became of a token file since it was saved.
FileChanges == {"none", "ciphertext", "iv", "iv_length", "key"}
OtherIv(iv) == CHOOSE i \in Ivs : i # iv
ChangedFile(encrypted, change) ==
    File("full",
         CASE change = "ciphertext" ->
                [encrypted EXCEPT !.ciphertext =
                    Hex(Tampered(FromHex(@), JsonDumps(<<>>)))]
           [] change = "iv" -> [encrypted EXCEPT !.iv = Hex(OtherIv(FromHex(@)))]
           [] change = "iv_length" ->
                [encrypted EXCEPT !.iv = Hex([FromHex(@) EXCEPT !.len = IV_SIZE_BYTES - 1])]
           [] OTHER -> encrypted,
         OwnerOnly)
OtherHexKey(hex_key) == [hex_key EXCEPT !.id = IF @ = 1 THEN 2 ELSE 1]

\* load on a token file written by save(token_data) and changed since, or
\* read under another TOKEN_ENCRYPTION_KEY
LoadChanged(token_data, iv, change) ==
    /\ cr = NoCrypt
    /\ LET e == EncryptToken(token_data, ValidHexKey, iv)
           hex_key == IF change = "key" THEN OtherHexKey(ValidHexKey) ELSE ValidHexKey
       IN  cr' = [op |-> "load", token_data |-> token_data, change |-> change,
                  result |-> LoadOutcome(ChangedFile(e, change), hex_key)]
    /\ UNCHANGED <<notPure, tp>>

\* key_from_hex(hex_key)
KeyFromHexCall(hex_key) ==
    /\ cr = NoCrypt
    /\ cr' = [op |-> "key", hex_key |-> hex_key, result |-> KeyFromHex(hex_key)]
    /\ UNCHANGED <<notPure, tp>>

\* encrypt_data(plaintext1, key) and then encrypt_data(plaintext2, key);
\* iv1 and iv2 are what os.urandom returns to the two calls
EncryptTwice(plaintext1, plaintext2, key, iv1, iv2) ==
    /\ cr = NoCrypt
    /\ cr' = [op |-> "twice", key |-> key, plaintext1 |-> plaintext1,
              plaintext2 |-> plaintext2, urandom1 |-> iv1, urandom2 |-> iv2,
              first |-> EncryptData(plaintext1, key, iv1),
              second |-> EncryptData(plaintext2, key, iv2)]
    /\ UNCHANGED <<notPure, tp>>

NextCrypto ==
    \/ \E plaintext \in Plaintexts : \E key \in Keys : \E iv \in Ivs :
            RoundTripData(plaintext, key, iv)
    \/ \E token_data \in TokenDicts : \E hex_key \in HexKeys \cup {NoHexKey} : \E iv \in Ivs :
            RoundTripToken(token_data, hex_key, iv)
    \/ \E plaintext \in Plaintexts, other \in Plaintexts, key \in Keys, iv \in Ivs,
          key2 \in Keys, iv2 \in GivenIvs :
            DecryptOther(plaintext, key, iv, key2, iv2, other)
    \/ \E token_data \in StorageTokens, iv \in Ivs, change \in FileChanges :
            LoadChanged(token_data, iv, change)
    \/ \E hex_key \in HexKeys \cup {NoHexKey} : KeyFromHexCall(hex_key)
    \/ \E plaintext1 \in Plaintexts, plaintext2 \in Plaintexts, key \in Keys,
          iv1 \in Ivs, iv2 \in Ivs :
            EncryptTwice(plaintext1, plaintext2, key, iv1, iv2)

SpecCrypto == InitPure /\ [][NextCrypto]_vars

(* ------------------------- encryption: claims --------------------------- *)
\* Does decrypt_data get anything other than what encrypt_data used and gave.
Differs == cr.tampered \/ cr.key2 # cr.key \/ cr.iv2 # cr.iv

\* C21 as stated: decrypt_data returns nothing but the plaintext that was
\* encrypted, fails with TokenError whenever ciphertext, key or IV is not
\* the one of the encryption, and load fails with TokenError on such a file.
C21_Original ==
    /\ cr.op = "other" =>
            /\ cr.decrypted.kind = "ok" => cr.decrypted.plaintext = cr.plaintext
            /\ Differs => cr.decrypted = Failure("TokenError")
    /\ (cr.op = "load" /\ cr.change # "none") => cr.result.kind = "raised"

\* C21 (amended): decrypt_data returns nothing but the plaintext that was
\* encrypted and fails whenever ciphertext, key or IV is not the one of the
\* encryption: with ValidationError when the key is not 32 or the IV not 12
\* bytes long, and otherwise with TokenError, the same for a wrong key, a
\* wrong IV and a changed ciphertext. load fails with TokenError on a file
\* changed in any of these ways.
C21_Tamper ==
    /\ cr.op = "other" =>
            /\ cr.decrypted.kind = "ok" => cr.decrypted.plaintext = cr.plaintext /\ ~Differs
            /\ Differs => Failed(cr.decrypted)
            /\ (~ValidKey(cr.key2) \/ cr.iv2.len # IV_SIZE_BYTES)
                    <=> cr.decrypted = Failure("ValidationError")
            /\ (Differs /\ ValidKey(cr.key2) /\ cr.iv2.len = IV_SIZE_BYTES)
                    => cr.decrypted = Failure("TokenError")
    /\ (cr.op = "load" /\ cr.change # "none") =>
            cr.result.kind = "raised" /\ cr.result.error = "TokenError"
    /\ (cr.op = "load" /\ cr.change = "none") => cr.result = Returned(cr.token_data)

\* A ciphertext changed to carry another plaintext was refused under the
\* right key and IV.
C21_Witness ==
    /\ cr.op = "other"
    /\ cr.tampered
    /\ cr.key2 = cr.key
    /\ cr.iv2 = cr.iv
    /\ cr.decrypted = Failure("TokenError")

\* C22 as stated: key_from_hex succeeds exactly on a string that, stripped,
\* is 64 hexadecimal digits; it then returns 32 bytes, and otherwise raises
\* ValidationError.
C22_Original ==
    cr.op = "key" =>
        /\ cr.result.kind = "ok" <=>
                /\ cr.hex_key.len = HEX_KEY_LENGTH
                /\ cr.hex_key.hex
                /\ cr.hex_key.spaces = 0
        /\ cr.result.kind = "ok" => cr.result.key.len = KEY_SIZE_BYTES
        /\ cr.result.kind # "ok" => cr.result = Failure("ValidationError")

StoreIds ==
    {<<"a", "@", "t">>, <<"a", "_", "a", "t", "_", "t">>, <<"a", "/">>, <<"a">>, <<"/">>}
Accepts(user_id) == TokenPath(user_id).kind = "path"
FileNames == {TokenPath(user_id).name : user_id \in {i \in StoreIds : Accepts(i)}}
SharedTokens == {TokenRecord(PollTokenKeys, "ya29.a"), TokenRecord(RefreshTokenKeys(TRUE), "ya29.b")}
\* How far save gets: open fails, the write stops early, chmod fails, or all
\* of it succeeds.
SaveOutcomes == {"open", "empty", "partial", "chmod", "saved"}

InitShared ==
    /\ CacheIdle
    /\ FlowIdle
    /\ PollIdle
    /\ LoginIdle
    /\ PureIdle
    /\ HitlIdle
    /\ LockIdle
    /\ fs = [name \in FileNames |-> NoFile]
    /\ env \in [hex_key : {NoHexKey, ValidHexKey}, umask : Umasks]
    /\ so = IdleStorage
    /\ sh = NoStorageHist

PathCall(op, user_id, result) ==
    so' = [IdleStorage EXCEPT !.pc = "done", !.op = op, !.user = user_id, !.result = result]

\* save(user_id, token_data), from _token_path to its return
SaveAt(user_id, token_data, iv, outcome) ==
    LET path == TokenPath(user_id)
        encrypted == EncryptToken(token_data, env.hex_key, iv)
    IN  /\ IF path.kind = "TokenError" THEN
                PathCall("save", user_id, TokenError("user_id")) /\ UNCHANGED fs
           ELSE IF Failed(encrypted) THEN
                PathCall("save", user_id, TokenError("key")) /\ UNCHANGED fs
           ELSE IF outcome = "open" THEN
                PathCall("save", user_id, TokenError("io")) /\ UNCHANGED fs
           ELSE LET mode == IF fs[path.name].exists THEN fs[path.name].mode
                            ELSE CreateMode(env.umask)
                    file == CASE outcome = "empty" -> File("empty", NoEncrypted, mode)
                              [] outcome = "partial" -> File("partial", encrypted, mode)
                              [] outcome = "chmod" -> File("full", encrypted, mode)
                              [] outcome = "saved" -> File("full", encrypted, OwnerOnly)
                IN  /\ fs' = [fs EXCEPT ![path.name] = file]
                    /\ PathCall("save", user_id,
                                IF outcome = "saved" THEN Returned(PyNone) ELSE TokenError("io"))
        /\ UNCHANGED <<env, sh, notStorage>>

\* What a load(user_id) made now would give.
LoadAtResult(files, user_id) ==
    LET path == TokenPath(user_id)
    IN  IF path.kind = "TokenError" THEN TokenError("user_id")
        ELSE LoadOutcome(files[path.name], env.hex_key)

\* load(user_id); reading the file may fail
LoadAt(user_id, ok) ==
    /\ PathCall("load", user_id,
                IF Accepts(user_id) /\ fs[TokenPath(user_id).name].exists /\ ~ok
                THEN TokenError("io") ELSE LoadAtResult(fs, user_id))
    /\ UNCHANGED <<fs, env, sh, notStorage>>

\* What an exists(user_id) made now would give.
ExistsAtResult(files, user_id) ==
    LET path == TokenPath(user_id)
    IN  IF path.kind = "TokenError" THEN TokenError("user_id")
        ELSE Returned(files[path.name].exists)

\* exists(user_id)
ExistsAt(user_id) ==
    /\ PathCall("exists", user_id, ExistsAtResult(fs, user_id))
    /\ UNCHANGED <<fs, env, sh, notStorage>>

\* delete(user_id); unlink may fail
DeleteAt(user_id, ok) ==
    LET path == TokenPath(user_id)
    IN  /\ IF path.kind = "TokenError" THEN
                PathCall("delete", user_id, TokenError("user_id")) /\ UNCHANGED fs
           ELSE IF ~fs[path.name].exists THEN
                PathCall("delete", user_id, Returned(FALSE)) /\ UNCHANGED fs
           ELSE IF ~ok THEN
                PathCall("delete", user_id, TokenError("io")) /\ UNCHANGED fs
           ELSE /\ fs' = [fs EXCEPT ![path.name] = NoFile]
                /\ PathCall("delete", user_id, Returned(TRUE))
        /\ UNCHANGED <<env, sh, notStorage>>

NextShared ==
    \/ \E user_id \in StoreIds, token_data \in SharedTokens, iv \in Ivs,
          outcome \in SaveOutcomes : SaveAt(user_id, token_data, iv, outcome)
    \/ \E user_id \in StoreIds, ok \in BOOLEAN : LoadAt(user_id, ok)
    \/ \E user_id \in StoreIds : ExistsAt(user_id)
    \/ \E user_id \in StoreIds, ok \in BOOLEAN : DeleteAt(user_id, ok)

SpecShared == InitShared /\ [][NextShared]_vars

(* ------------------ claims: identities and their files ------------------ *)
\* The step is a save or a delete on user_id.
Writes(user_id) == so'.op \in {"save", "delete"} /\ so'.user = user_id

\* C29 (as stated): any two distinct identities the store accepts have
\* distinct token files, and a save or delete on one leaves what load and
\* exists (and so delete) give for the other as it was.
C29_Original ==
    [][\A u \in StoreIds, v \in StoreIds :
          (u # v /\ Accepts(u) /\ Accepts(v)) =>
              /\ TokenPath(u) # TokenPath(v)
              /\ Writes(u) =>
                    /\ LoadAtResult(fs', v) = LoadAtResult(fs, v)
                    /\ ExistsAtResult(fs', v) = ExistsAtResult(fs, v)]_vars


(* ------------ claims: redirect URI of the exchange, listener ------------ *)
\* C27 as stated: within one run_local_server attempt the redirect URI sent
\* with the code exchange is the redirect URI of the authorization URL that
\* was opened for the attempt, also when the listener is on a fallback port.
C27_Original ==
    fl.op = "run_local_server" =>
        \A i \in 1..Len(fh.exchanged) : fh.exchanged[i].redirect_uri = fh.opened.redirect_uri

\* C28 as stated: a run_local_server call that bound a listener has closed
\* it when it returns or raises, whatever the outcome: no listener is left
\* and the port it was bound to is free again.
C28_Original ==
    FlowDone => /\ listeners = {}
                /\ fl.actual_port # Null => portStatus[fl.actual_port] = "free"


(* ======================================================================== *)
(* ApprovalManager (hitl/manager.py): store, validate, consume, reject and  *)
(* cleanup_expired called from several threads. Everything a call does      *)
(* inside `with self._lock:` is one step.                                   *)
(* ======================================================================== *)
InitHitl ==
    /\ CacheIdle
    /\ FlowIdle
    /\ PollIdle
    /\ StorageIdle
    /\ LoginIdle
    /\ PureIdle
    /\ LockIdle
    /\ am \in {[IdleManager(timeout) EXCEPT !.params_hash = params_hash] :
                    timeout \in Timeouts, params_hash \in {"", "h1"}}

\* ApprovalRequest.is_expired, and the test of cleanup_expired, at time n
IsExpired(request, n) == n > request.expires_at

\* The call of thread t is over.
CallEnds(t, op, id, result) ==
    [am EXCEPT !.th[t] = IdleCall, !.last = [op |-> op, id |-> id, result |-> result]]

\* store(request) up to the lock: expiry and status are set on the request
StoreBegin(t, id) ==
    /\ am.th[t].pc = "idle"
    /\ am.stored[id] < MaxStores
    /\ am' = [am EXCEPT !.obj[id] = [status |-> "pending", expires_at |-> am.now + am.timeout],
                        !.stored[id] = @ + 1,
                        !.th[t] = [pc |-> "store", id |-> id, now |-> am.now]]
    /\ UNCHANGED notHitl

\* store(request) under the lock: the request enters the dict
StoreInsert(t) ==
    /\ am.th[t].pc = "store"
    /\ am' = [CallEnds(t, "store", am.th[t].id, am.th[t].id)
                EXCEPT !.requests = @ \cup {am.th[t].id}]
    /\ UNCHANGED notHitl

\* validate(approval_id)
Validate(t, id) ==
    /\ am.th[t].pc = "idle"
    /\ am' = IF id \notin am.requests THEN CallEnds(t, "validate", id, "False")
             ELSE IF IsExpired(am.obj[id], am.now)
             THEN [CallEnds(t, "validate", id, "False") EXCEPT !.obj[id].status = "expired"]
             ELSE IF am.obj[id].status # "pending" THEN CallEnds(t, "validate", id, "False")
             ELSE CallEnds(t, "validate", id, "True")
    /\ UNCHANGED notHitl

\* What consume(approval_id, expected_action, params_hash) would do now:
\* the reason of its ApprovalError, or "returned".
ConsumeOutcome(m, id, expected_action, params_hash) ==
    IF id \notin m.requests THEN "not_found"
    ELSE IF IsExpired(m.obj[id], m.now) THEN "expired"
    ELSE IF m.obj[id].status # "pending" THEN "already_consumed"
    ELSE IF expected_action # "" /\ ActionOf(id) # expected_action THEN "action_mismatch"
    ELSE IF params_hash # "" /\ m.params_hash # "" /\ params_hash # m.params_hash
         THEN "params_hash_mismatch"
    ELSE "returned"

\* As Consume, handing the request out without marking and removing it.
Consume_NoRemove(t, id, expected_action, params_hash) ==
    /\ am.th[t].pc = "idle"
    /\ LET outcome == ConsumeOutcome(am, id, expected_action, params_hash)
           ended == CallEnds(t, "consume", id,
                             IF outcome = "returned" THEN outcome ELSE "ApprovalError")
       IN  am' = CASE outcome = "expired" ->
                        [ended EXCEPT !.obj[id].status = "expired", !.requests = @ \ {id}]
                   [] outcome = "returned" -> [ended EXCEPT !.returned[id] = @ + 1]
                   [] OTHER -> ended
    /\ UNCHANGED notHitl

\* consume(approval_id, expected_action, params_hash)
Consume(t, id, expected_action, params_hash) ==
    /\ am.th[t].pc = "idle"
    /\ LET outcome == ConsumeOutcome(am, id, expected_action, params_hash)
           ended == CallEnds(t, "consume", id,
                             IF outcome = "returned" THEN outcome ELSE "ApprovalError")
       IN  am' = CASE outcome = "expired" ->
                        [ended EXCEPT !.obj[id].status = "expired", !.requests = @ \ {id}]
                   [] outcome = "returned" ->
                        [ended EXCEPT !.obj[id].status = "approved", !.requests = @ \ {id},
                                      !.returned[id] = @ + 1]
                   [] OTHER -> ended
    /\ UNCHANGED notHitl

\* reject(approval_id)
Reject(t, id) ==
    /\ am.th[t].pc = "idle"
    /\ am' = IF id \notin am.requests THEN CallEnds(t, "reject", id, "None")
             ELSE [CallEnds(t, "reject", id, id)
                     EXCEPT !.obj[id].status = "rejected", !.requests = @ \ {id},
                            !.rejected[id] = TRUE]
    /\ UNCHANGED notHitl

\* cleanup_expired up to the lock: the clock is read
CleanupBegin(t) ==
    /\ am.th[t].pc = "idle"
    /\ am' = [am EXCEPT !.th[t] = [pc |-> "cleanup", id |-> "", now |-> am.now]]
    /\ UNCHANGED notHitl

\* cleanup_expired under the lock: what had expired when the clock was read
\* is marked and removed
CleanupExpired(t) ==
    /\ am.th[t].pc = "cleanup"
    /\ LET expired_ids == {id \in am.requests : IsExpired(am.obj[id], am.th[t].now)}
       IN  am' = [CallEnds(t, "cleanup_expired", "", "count")
                    EXCEPT !.requests = @ \ expired_ids,
                           !.obj = [id \in ApprovalIds |->
                                      IF id \in expired_ids
                                      THEN [am.obj[id] EXCEPT !.status = "expired"]
                                      ELSE am.obj[id]]]
    /\ UNCHANGED notHitl

\* datetime.now(UTC) moves on
ClockTick ==
    /\ am.now < MaxClock
    /\ am' = [am EXCEPT !.now = @ + 1]
    /\ UNCHANGED notHitl

NextHitl ==
    \/ \E t \in Threads, id \in ApprovalIds : StoreBegin(t, id)
    \/ \E t \in Threads : StoreInsert(t)
    \/ \E t \in Threads, id \in GivenIds : Validate(t, id)
    \/ \E t \in Threads, id \in GivenIds, expected_action \in ExpectedActions,
          params_hash \in ParamsHashes : Consume(t, id, expected_action, params_hash)
    \/ \E t \in Threads, id \in GivenIds : Reject(t, id)
    \/ \E t \in Threads : CleanupBegin(t)
    \/ \E t \in Threads : CleanupExpired(t)
    \/ ClockTick

SpecHitl == InitHitl /\ [][NextHitl]_vars

(* ----------------------- approval manager: claims ----------------------- *)
StoredOnce(id) == am.stored[id] = 1
\* The step is a consume that returned request id.
HandsOut(id) == am'.returned[id] = am.returned[id] + 1

Refreshed(c) == c.access_token >= 1

\* C30 as stated: a refreshed credential is handed out by the fast path only
\* once the token store holds its access token, and when the save of a
\* refreshed token fails no caller has a client over that token.
C30_Original ==
    /\ [][\A t \in Threads :
            (th[t].pc = "fast" /\ th'[t].pc = "done" /\ th'[t].result.kind = "service"
                /\ Refreshed(th'[t].result.cred))
            => store[th[t].user].access_token = th'[t].result.cred.access_token]_vars
    /\ [][\A t \in Threads :
            (th[t].pc = "save" /\ th'[t].pc # "save" /\ th'[t].pc # "cache")
            => \A s \in Threads :
                  th[s].result.kind = "service"
                  => th[s].result.cred.access_token # th[t].creds.access_token]_vars


(* ======================================================================== *)
(* GmailClient at the grain of its locks: self._lock, the registry mutex    *)
(* self._refresh_lock_mutex and the per-user refresh locks, under           *)
(* concurrent get_service calls and the logout tool.                        *)
(* ======================================================================== *)
InitLocks ==
    /\ CacheIdle
    /\ FlowIdle
    /\ PollIdle
    /\ StorageIdle
    /\ LoginIdle
    /\ PureIdle
    /\ HitlIdle
    /\ gc \in {IdleClient([u \in Users |-> IF u = "default" THEN file ELSE NoCred]) :
                  file \in TokenFiles}

\* Credentials.valid
CredValid(c) == c.exists /\ c.token /\ ~c.expired
\* creds.expired and creds.refresh_token
CredRefreshable(c) == c.exists /\ c.expired /\ c.rt

\* Where a thread waits for self._lock, and where it is once it has it.
LockedPc == [fast_wait |-> "fast", dcheck_wait |-> "dcheck", cache_wait |-> "cache",
             inval_wait |-> "inval"]

\* Thread t goes on at p.
At(t, p) == [gc EXCEPT !.th[t].pc = p]
\* The call of t ends with result r; the `with` blocks it leaves release
\* self._lock and the refresh lock of its user if t holds them.
Ends(m, t, r) ==
    [m EXCEPT !.th[t] = [NoCaller EXCEPT !.pc = "done", !.op = m.th[t].op,
                                         !.user = m.th[t].user, !.result = r],
              !.lock = IF @ = t THEN Free ELSE @,
              !.held[m.th[t].user] = IF @ = t THEN Free ELSE @]
\* As Ends, leaving the refresh lock held.
Ends_KeepRefreshLock(m, t, r) ==
    [m EXCEPT !.th[t] = [NoCaller EXCEPT !.pc = "done", !.op = m.th[t].op,
                                         !.user = m.th[t].user, !.result = r],
              !.lock = IF @ = t THEN Free ELSE @]

\* get_service(u) is called.
GetServiceCall(t, u) ==
    /\ gc.th[t].pc \in {"idle", "done"}
    /\ gc.calls < MaxCalls
    /\ gc' = [gc EXCEPT !.calls = @ + 1,
                        !.th[t] = [NoCaller EXCEPT !.pc = "fast_wait", !.op = "get_service",
                                                   !.user = u]]
    /\ UNCHANGED notLock

\* gmail_logout() is called: user_id = "default", then gmail_client.invalidate.
LogoutCall(t) ==
    /\ gc.th[t].pc \in {"idle", "done"}
    /\ gc.calls < MaxCalls
    /\ gc' = [gc EXCEPT !.calls = @ + 1,
                        !.th[t] = [NoCaller EXCEPT !.pc = "inval_wait", !.op = "logout"]]
    /\ UNCHANGED notLock

\* `with self._lock:` is entered, once the lock is free.
AcquireLock(t) ==
    /\ gc.th[t].pc \in DOMAIN LockedPc
    /\ gc.lock = Free
    /\ gc' = [At(t, LockedPc[gc.th[t].pc]) EXCEPT !.lock = t]
    /\ UNCHANGED notLock

\* get_service, first check: the block under self._lock
FastPathLocked(t) ==
    /\ gc.th[t].pc = "fast"
    /\ gc' = IF CredValid(gc.cache[gc.th[t].user])
             THEN Ends(gc, t, "service")
             ELSE [At(t, "mutex_wait") EXCEPT !.lock = Free]
    /\ UNCHANGED notLock

\* _get_or_create_refresh_lock: `with self._refresh_lock_mutex:` is entered
AcquireMutex(t) ==
    /\ gc.th[t].pc = "mutex_wait"
    /\ gc.mutex = Free
    /\ gc' = [At(t, "registry") EXCEPT !.mutex = t]
    /\ UNCHANGED notLock

\* _get_or_create_refresh_lock: the block under the mutex
GetRefreshLock(t) ==
    /\ gc.th[t].pc = "registry"
    /\ gc' = [At(t, "refresh_lock_wait") EXCEPT !.refresh_locks[gc.th[t].user] = TRUE,
                                                !.mutex = Free]
    /\ UNCHANGED notLock

\* `with refresh_lock:` is entered, once the lock is free.
EnterRefreshLock(t) ==
    /\ gc.th[t].pc = "refresh_lock_wait"
    /\ gc.held[gc.th[t].user] = Free
    /\ gc' = [At(t, "dcheck_wait") EXCEPT !.held[gc.th[t].user] = t]
    /\ UNCHANGED notLock

\* get_service, double check: the block under self._lock
DoubleCheckLocked(t) ==
    /\ gc.th[t].pc = "dcheck"
    /\ LET c == gc.cache[gc.th[t].user]
       IN  gc' = IF CredValid(c) THEN Ends(gc, t, "service")
                 ELSE IF CredRefreshable(c)
                 THEN [gc EXCEPT !.th[t].pc = "refresh", !.th[t].creds = c,
                                 !.th[t].aliased = TRUE, !.th[t].viaCache = TRUE,
                                 !.lock = Free]
                 ELSE [At(t, "load") EXCEPT !.lock = Free]
    /\ UNCHANGED notLock

\* An exception leaves _do_refresh: caught when the credential came from the
\* cache, re-raised as AuthenticationError when it came from storage.
RefreshFailed(t) ==
    IF gc.th[t].viaCache THEN At(t, "inval_wait") ELSE Ends(gc, t, "AuthenticationError")

\* _do_refresh: creds.refresh(Request()) returns or raises; the Credentials
\* object, which may be the cached one, is updated in place.
RefreshRequest(t, accept) ==
    /\ gc.th[t].pc = "refresh"
    /\ gc' = IF accept
             THEN LET c == [gc.th[t].creds EXCEPT !.token = TRUE, !.expired = FALSE]
                  IN  [gc EXCEPT !.th[t].pc = "save", !.th[t].creds = c,
                                 !.cache[gc.th[t].user] = IF gc.th[t].aliased THEN c ELSE @]
             ELSE RefreshFailed(t)
    /\ UNCHANGED notLock

\* _do_refresh: token_storage.save returns or raises
RefreshSave(t, ok) ==
    /\ gc.th[t].pc = "save"
    /\ gc' = IF ok
             THEN [At(t, "cache_wait") EXCEPT !.store[gc.th[t].user] = gc.th[t].creds]
             ELSE RefreshFailed(t)
    /\ UNCHANGED notLock

\* No thread's creds is the cached object of u any more.
NotAliased(m, u) ==
    [m EXCEPT !.th = [s \in Threads |->
                        IF m.th[s].user = u THEN [m.th[s] EXCEPT !.aliased = FALSE]
                        ELSE m.th[s]]]

\* The cache update under self._lock, and the return of the service, which
\* leaves the refresh lock.
CacheLocked(t) ==
    /\ gc.th[t].pc = "cache"
    /\ gc' = Ends([NotAliased(gc, gc.th[t].user)
                      EXCEPT !.cache[gc.th[t].user] = gc.th[t].creds], t, "service")
    /\ UNCHANGED notLock

\* _invalidate_unlocked under self._lock: in get_service after a failed
\* refresh of the cached credential, and in invalidate as logout calls it
InvalidateLocked(t) ==
    /\ gc.th[t].pc = "inval"
    /\ gc' = [NotAliased(gc, gc.th[t].user)
                 EXCEPT !.cache[gc.th[t].user] = NoCred,
                        !.lock = Free,
                        !.th[t].pc = IF gc.th[t].op = "logout" THEN "revoke" ELSE "load"]
    /\ UNCHANGED notLock

\* As LoadStored, with exits that leave the refresh lock held.
LoadStored_KeepLock(t, ok) ==
    /\ gc.th[t].pc = "load"
    /\ LET file == gc.store[gc.th[t].user]
           c == [file EXCEPT !.corrupt = FALSE]
       IN  gc' = IF file.exists /\ (file.corrupt \/ ~ok) THEN Ends_KeepRefreshLock(gc, t, "TokenError")
                 ELSE IF ~file.exists THEN Ends_KeepRefreshLock(gc, t, "AuthenticationError")
                 ELSE IF CredRefreshable(c)
                 THEN [gc EXCEPT !.th[t].pc = "refresh", !.th[t].creds = c,
                                 !.th[t].aliased = FALSE, !.th[t].viaCache = FALSE]
                 ELSE IF ~CredValid(c) THEN Ends_KeepRefreshLock(gc, t, "AuthenticationError")
                 ELSE [gc EXCEPT !.th[t].pc = "cache_wait", !.th[t].creds = c,
                                 !.th[t].aliased = FALSE, !.th[t].viaCache = FALSE]
    /\ UNCHANGED notLock

\* get_service from token_storage.load to the decision what to do with the
\* credentials built; the load returns or raises
LoadStored(t, ok) ==
    /\ gc.th[t].pc = "load"
    /\ LET file == gc.store[gc.th[t].user]
           c == [file EXCEPT !.corrupt = FALSE]
       IN  gc' = IF file.exists /\ (file.corrupt \/ ~ok) THEN Ends(gc, t, "TokenError")
                 ELSE IF ~file.exists THEN Ends(gc, t, "AuthenticationError")
                 ELSE IF CredRefreshable(c)
                 THEN [gc EXCEPT !.th[t].pc = "refresh", !.th[t].creds = c,
                                 !.th[t].aliased = FALSE, !.th[t].viaCache = FALSE]
                 ELSE IF ~CredValid(c) THEN Ends(gc, t, "AuthenticationError")
                 ELSE [gc EXCEPT !.th[t].pc = "cache_wait", !.th[t].creds = c,
                                 !.th[t].aliased = FALSE, !.th[t].viaCache = FALSE]
    /\ UNCHANGED notLock

\* gmail_logout: token_storage.load and the revocation. A TokenError of the
\* load is caught. oauth_manager.revoke_token is called for a stored access
\* token; OAuthManager (auth/oauth.py) has no such method, so the call
\* raises AttributeError, which nothing catches.
LogoutRevoke(t, ok) ==
    /\ gc.th[t].pc = "revoke"
    /\ LET file == gc.store[gc.th[t].user]
       IN  gc' = IF file.exists /\ ~file.corrupt /\ ok /\ file.token
                 THEN Ends(gc, t, "AttributeError")
                 ELSE At(t, "delete")
    /\ UNCHANGED notLock

\* gmail_logout: token_storage.delete returns or raises TokenError, which is
\* caught; the tool returns.
LogoutDelete(t, ok) ==
    /\ gc.th[t].pc = "delete"
    /\ LET u == gc.th[t].user
           deleted == gc.store[u].exists /\ ok
       IN  gc' = [Ends(gc, t, IF deleted THEN "logged_out" ELSE "not_logged_out")
                    EXCEPT !.store[u] = IF deleted THEN NoCred ELSE @,
                           !.loggedOut[u] = deleted \/ ~gc.store[u].exists]
    /\ UNCHANGED notLock

\* Time passes the expiry of the token of u.
Expire(u) ==
    /\ \/ gc.cache[u].exists /\ ~gc.cache[u].expired
       \/ gc.store[u].exists /\ ~gc.store[u].corrupt /\ ~gc.store[u].expired
    /\ gc' = [gc EXCEPT !.cache[u] = IF @.exists THEN [@ EXCEPT !.expired = TRUE] ELSE @,
                        !.store[u] = IF @.exists /\ ~@.corrupt
                                     THEN [@ EXCEPT !.expired = TRUE] ELSE @,
                        !.th = [s \in Threads |->
                                  IF gc.th[s].user = u /\ gc.th[s].creds.exists
                                  THEN [gc.th[s] EXCEPT !.creds.expired = TRUE]
                                  ELSE gc.th[s]]]
    /\ UNCHANGED notLock

\* What thread t does once it is inside a call.
Proceed(t) ==
    \/ AcquireLock(t)
    \/ FastPathLocked(t)
    \/ AcquireMutex(t)
    \/ GetRefreshLock(t)
    \/ EnterRefreshLock(t)
    \/ DoubleCheckLocked(t)
    \/ \E accept \in BOOLEAN : RefreshRequest(t, accept)
    \/ \E ok \in BOOLEAN : RefreshSave(t, ok)
    \/ CacheLocked(t)
    \/ InvalidateLocked(t)
    \/ \E ok \in BOOLEAN : LoadStored(t, ok)
    \/ \E ok \in BOOLEAN : LogoutRevoke(t, ok)
    \/ \E ok \in BOOLEAN : LogoutDelete(t, ok)

NextLocks ==
    \/ \E t \in Threads, u \in Users : GetServiceCall(t, u)
    \/ \E t \in Threads : LogoutCall(t)
    \/ \E t \in Threads : Proceed(t)
    \/ \E u \in Users : Expire(u)

SpecLocks == InitLocks /\ [][NextLocks]_vars

\* Every thread that can take a step is scheduled: a thread inside a call
\* whose next step is enabled for good takes it. The steps that stand for
\* network and file operations are always enabled, that is, they return.
SpecLocksFair == SpecLocks /\ \A t \in Threads : WF_vars(Proceed(t))


(* --------------------------- claims: locks ------------------------------ *)
Inside(t) == gc.th[t].pc \notin {"idle", "done"}
HoldsRefreshLock(t) == \E u \in Users : gc.held[u] = t
\* Where a thread waits for a lock, and where it waits for the network or
\* the token store.
LockWaits == DOMAIN LockedPc \cup {"mutex_wait", "refresh_lock_wait"}
IoSteps == {"refresh", "save", "load", "revoke", "delete"}

\* The registry mutex is held under no other lock and given back before the
\* refresh lock is waited for; self._lock is taken last, and its holder
\* neither waits for a lock nor for the network or the token store; a thread
\* outside a call holds no lock.
LockOrder ==
    \A t \in Threads :
        /\ gc.mutex = t => gc.th[t].pc = "registry" /\ gc.lock # t /\ ~HoldsRefreshLock(t)
        /\ gc.th[t].pc = "refresh_lock_wait" => gc.mutex # t /\ gc.lock # t
        /\ gc.lock = t => gc.th[t].pc \notin LockWaits \cup IoSteps /\ gc.mutex # t
        /\ ~Inside(t) => gc.lock # t /\ gc.mutex # t /\ ~HoldsRefreshLock(t)

\* C25: concurrent get_service and invalidate calls keep the lock order, and
\* every call whose network and storage operations return comes to its end:
\* of the calls made, which are finitely many, none stays inside for ever.
C25_NoDeadlock ==
    /\ []LockOrder
    /\ <>[](\A t \in Threads : ~Inside(t))

\* A caller waits for the refresh lock while its holder saves a refreshed
\* token.
C25_Witness ==
    /\ gc.th[1].pc = "refresh_lock_wait"
    /\ gc.th[1].user = "default"
    /\ gc.held["default"] = 2
    /\ gc.th[2].pc = "save"


\* C26 as stated: once a logout, the invalidation followed by the deletion of
\* the stored token, has completed, the cache holds no entry for the
\* identity (no login follows here), whatever get_service calls were under
\* way when the logout began.
C26_Original ==
    \A u \in Users : gc.loggedOut[u] => ~gc.cache[u].exists
====
